---- MODULE Spec2Model ----
(***************************************************************************)
(* A model of libcloud's NTT-CIS load-balancer driver                      *)
(* (libcloud/loadbalancer/drivers/nttcis.py, class NttCisLBDriver).        *)
(*                                                                         *)
(* Every driver method is one "build XML -> POST/GET -> parse XML"         *)
(* sequence.  A method is modelled by an operator of the same name that    *)
(* maps its arguments and the server's behaviour during the call to the    *)
(* sequence of requests it sends and to what it returns or raises; an      *)
(* action of the same name (capitalised) performs one call.                *)
(***************************************************************************)
EXTENDS Integers, Sequences, FiniteSets, TLC

VARIABLES
    network_domain_id,  \* self.network_domain_id, as the driver was constructed
    call,               \* the call that just completed: op, args, reqs sent, ret
    lb,                 \* the LoadBalancer the caller got from create_balancer
    listeners           \* the server: the virtual listeners it holds

vars == <<network_domain_id, call, lb, listeners>>

----------------------------------------------------------------------------
(* Bounds of the model *)

\* longest `members` list handed to create_balancer
MaxMembers == 2
\* longest list of elements in one server listing
MaxListing == 2
\* number of virtual listeners the modelled server can hold
MaxListeners == 1
\* longest timeout, in seconds, ex_wait_for_state is called with
MaxTimeout == 5

----------------------------------------------------------------------------
(* Python values *)

\* Python's None, for values that are otherwise strings
None == "<None>"

\* A port is None, an int, or the decimal text of an int.
PyNone == <<"none", 0>>
PyInt(n) == <<"int", n>>
PyText(n) == <<"str", n>>

\* str(x) of an int (or of a text)
str(v) == <<"str", v[2]>>

\* int(x) of a decimal text
int(v) == <<"int", v[2]>>

\* s.replace(old, new) for one-character old and new; strings whose
\* characters matter are sequences of one-character strings
replace(s, old, new) == [i \in DOMAIN s |-> IF s[i] = old THEN new ELSE s[i]]

\* libcloud.loadbalancer.types.State
StateEnum ==
    {"State.RUNNING", "State.PENDING", "State.UNKNOWN", "State.ERROR", "State.DELETED"}

\* NttCisLBDriver._VALUE_TO_STATE_MAP
_VALUE_TO_STATE_MAP ==
    [NORMAL |-> "State.RUNNING",
     PENDING_ADD |-> "State.PENDING",
     PENDING_CHANGE |-> "State.PENDING",
     PENDING_DELETE |-> "State.PENDING",
     FAILED_ADD |-> "State.ERROR",
     FAILED_CHANGE |-> "State.ERROR",
     FAILED_DELETE |-> "State.ERROR",
     REQUIRES_SUPPORT |-> "State.ERROR"]

\* None, for values that are otherwise objects
NoneObject == [cls |-> "NoneType"]

\* x is None, for an object
IsNone(x) == x.cls = "NoneType"

\* dict.get(key): the default is left out
DictGetNoDefault(d, key, default) == IF key \in DOMAIN d THEN d[key] ELSE None

\* dict.get(key, default)
DictGet(d, key, default) == IF key \in DOMAIN d THEN d[key] ELSE default

\* NttCisLBDriver._VALUE_TO_ALGORITHM_MAP
_VALUE_TO_ALGORITHM_MAP ==
    [ROUND_ROBIN |-> "Algorithm.ROUND_ROBIN",
     LEAST_CONNECTIONS_MEMBER |-> "Algorithm.LEAST_CONNECTIONS_MEMBER",
     LEAST_CONNECTIONS_NODE |-> "Algorithm.LEAST_CONNECTIONS_NODE",
     OBSERVED_MEMBER |-> "Algorithm.OBSERVED_MEMBER",
     OBSERVED_NODE |-> "Algorithm.OBSERVED_NODE",
     PREDICTIVE_MEMBER |-> "Algorithm.PREDICTIVE_MEMBER",
     PREDICTIVE_NODE |-> "Algorithm.PREDICTIVE_NODE"]

\* reverse_dict(_VALUE_TO_ALGORITHM_MAP)
_ALGORITHM_TO_VALUE_MAP ==
    [a \in {_VALUE_TO_ALGORITHM_MAP[v] : v \in DOMAIN _VALUE_TO_ALGORITHM_MAP} |->
        CHOOSE v \in DOMAIN _VALUE_TO_ALGORITHM_MAP : _VALUE_TO_ALGORITHM_MAP[v] = a]

\* libcloud.loadbalancer.base.DEFAULT_ALGORITHM
DEFAULT_ALGORITHM == "Algorithm.ROUND_ROBIN"

----------------------------------------------------------------------------
(* Outcomes of a call *)

Return(v) == [kind |-> "return", value |-> v]
Raise(e) == [kind |-> "raise", value |-> e]
Outcome(reqs, ret) == [reqs |-> reqs, ret |-> ret]

----------------------------------------------------------------------------
(* Construction *)

\* libcloud.common.nttcis.API_ENDPOINTS: the endpoint of each known region
API_ENDPOINTS ==
    [r \in {"na", "eu"} |-> [cls |-> "endpoint", name |-> r, host |-> "api-" \o r]]

DEFAULT_REGION == "na"

\* API_ENDPOINTS[region]: a KeyError for a region that is not a key
__init__(nd, host, region) ==
    IF region \notin DOMAIN API_ENDPOINTS /\ host = None
    THEN Outcome(<<>>, Raise("ValueError"))
    ELSE IF region # None /\ region \notin DOMAIN API_ENDPOINTS
    THEN Outcome(<<>>, Raise("KeyError"))
    ELSE Outcome(<<>>, Return(
            [cls |-> "NttCisLBDriver", network_domain_id |-> nd,
             selected_region |->
                IF region # None THEN API_ENDPOINTS[region] ELSE NoneObject]))

----------------------------------------------------------------------------
(* Requests and the server's answers *)

\* ET.Element(action, {"xmlns": TYPES_URN, "id": id}) with its SubElements,
\* each a pair <<tag, text>>, as POSTed; id is None when the element has no
\* id attribute
Post(action, id, children) ==
    [method |-> "POST", action |-> action, id |-> id, children |-> children]

\* a GET of a resource or a listing
Get(action, id) ==
    [method |-> "GET", action |-> action, id |-> id, children |-> <<>>]

\* the tags of the child elements of a request, in document order
Tags(req) == [i \in DOMAIN req.children |-> req.children[i][1]]

HasChild(req, tag) == \E i \in DOMAIN req.children : req.children[i][1] = tag

\* the text of the first child element with this tag
ChildText(req, tag) ==
    req.children[CHOOSE i \in DOMAIN req.children :
        /\ req.children[i][1] = tag
        /\ \A j \in 1..(i - 1) : req.children[j][1] # tag][2]

\* The server's behaviour during one call: the request (counted from 1 within
\* the call) at which the connection raises instead of answering (0: none),
\* the responseCode of each answer (None: the answer has none), and the ids
\* it hands out; node: whether its answer to createNode names a node.
Server(failAt, codes, poolId, vlId, vlIp) ==
    [failAt |-> failAt, codes |-> codes, poolId |-> poolId, vlId |-> vlId, vlIp |-> vlIp,
     node |-> TRUE]

\* the same server, answering createNode without a nodeId
WithoutNode(srv) == [srv EXCEPT !.node = FALSE]

\* self.connection.request_with_orgId_api_2(...).object for the k-th request
\* of a call: the parsed answer, with the <info name= value=> elements the
\* create operations read
request_with_orgId_api_2(srv, k, req) ==
    [fault |-> srv.failAt = k,
     responseCode |-> IF k \in DOMAIN srv.codes THEN srv.codes[k] ELSE "OK",
     info |->
        CASE req.action = "createPool" -> [poolId |-> srv.poolId]
          [] req.action = "createNode" /\ srv.node ->
                [nodeId |-> "node" \o ToString(k), name |-> ChildText(req, "name")]
          [] req.action = "addPoolMember" ->
                [poolMemberId |-> "pm" \o ToString(k), nodeName |-> "nodeName"]
          [] req.action = "createVirtualListener" ->
                [virtualListenerId |-> srv.vlId,
                 listenerIpAddress |->
                    IF HasChild(req, "listenerIpAddress")
                    THEN ChildText(req, "listenerIpAddress")
                    ELSE srv.vlIp]
          [] OTHER -> [none |-> None]]

\* for info in findall(response, "info", TYPES_URN): if info.get("name") == name
InfoValue(response, name) == DictGet(response.info, name, None)

\* the exception the connection raises when the server does not answer
APIException == Raise("NttCisAPIException")

\* response_code == "OK": IN_PROGRESS is not taken for success
SucceededOnlyWhenOK(response) == response.responseCode = "OK"

\* response_code in ["IN_PROGRESS", "OK"]
Succeeded(response) == response.responseCode \in {"IN_PROGRESS", "OK"}

----------------------------------------------------------------------------
(* Destroy operations *)

\* NttCisLBDriver.ex_destroy_node; k is the position of its request in the call
ex_destroy_node(node_id, srv, k) ==
    LET destroy_request == Post("deleteNode", node_id, <<>>)
        result == request_with_orgId_api_2(srv, k, destroy_request)
    IN  IF result.fault
        THEN Outcome(<<destroy_request>>, APIException)
        ELSE Outcome(<<destroy_request>>, Return(Succeeded(result)))

\* NttCisLBDriver.ex_destroy_pool
ex_destroy_pool(pool, srv) ==
    LET destroy_request == Post("deletePool", pool.id, <<>>)
        result == request_with_orgId_api_2(srv, 1, destroy_request)
    IN  IF result.fault
        THEN Outcome(<<destroy_request>>, APIException)
        ELSE Outcome(<<destroy_request>>, Return(Succeeded(result)))

\* NttCisLBDriver.destroy_balancer
destroy_balancer(balancer, srv) ==
    LET delete_listener == Post("deleteVirtualListener", balancer.id, <<>>)
        result == request_with_orgId_api_2(srv, 1, delete_listener)
    IN  IF result.fault
        THEN Outcome(<<delete_listener>>, APIException)
        ELSE Outcome(<<delete_listener>>, Return(Succeeded(result)))

\* NttCisLBDriver.balancer_detach_member (the balancer argument is not read)
balancer_detach_member(balancer, member, srv) ==
    LET create_pool_m == Post("removePoolMember", member.id, <<>>)
        result == request_with_orgId_api_2(srv, 1, create_pool_m)
    IN  IF result.fault
        THEN Outcome(<<create_pool_m>>, APIException)
        ELSE Outcome(<<create_pool_m>>, Return(Succeeded(result)))

\* NttCisLBDriver.ex_destroy_pool_member
ex_destroy_pool_member(member, destroy_node, srv) ==
    LET destroy_request == Post("removePoolMember", member.id, <<>>)
        result == request_with_orgId_api_2(srv, 1, destroy_request)
    IN  IF result.fault
        THEN Outcome(<<destroy_request>>, APIException)
        ELSE IF member.node_id # None /\ destroy_node = TRUE
        THEN LET d == ex_destroy_node(member.node_id, srv, 2)
             IN  Outcome(<<destroy_request>> \o d.reqs, d.ret)
        ELSE Outcome(<<destroy_request>>, Return(Succeeded(result)))

----------------------------------------------------------------------------
(* Create and edit operations *)

\* NttCisLBDriver.ex_create_pool, with the default health_monitors=None,
\* service_down_action="NONE" and slow_ramp_time=30; names are sequences of
\* characters
ex_create_pool(nd, name, balancer_method, ex_description, srv, k) ==
    LET discarded == replace(name, " ", "_")  \* the result of name.replace is dropped
        create_node_elm ==
            Post("createPool", None,
                 << <<"networkDomainId", nd>>,
                    <<"name", name>>,
                    <<"description", ex_description>>,
                    <<"loadBalanceMethod", balancer_method>>,
                    <<"serviceDownAction", "NONE">>,
                    <<"slowRampTime", "30">> >>)
        response == request_with_orgId_api_2(srv, k, create_node_elm)
    IN  IF response.fault
        THEN Outcome(<<create_node_elm>>, APIException)
        ELSE Outcome(<<create_node_elm>>,
                Return([cls |-> "NttCisPool",
                        id |-> InfoValue(response, "poolId"),
                        name |-> name,
                        description |-> ex_description,
                        status |-> "State.RUNNING",
                        load_balance_method |-> balancer_method,
                        health_monitor_id |-> None,
                        service_down_action |-> "NONE",
                        slow_ramp_time |-> "30"]))

\* NttCisLBDriver.ex_create_node, with the default connection limits
ex_create_node(nd, name, ip, ex_description, srv, k) ==
    LET create_node_elm ==
            Post("createNode", None,
                 << <<"networkDomainId", nd>>, <<"name", name>> >>
                 \o (IF ex_description # None
                     THEN << <<"description", ex_description>> >> ELSE <<>>)
                 \o << <<"ipv4Address", ip>>,
                       <<"status", "ENABLED">>,
                       <<"connectionLimit", "25000">>,
                       <<"connectionRateLimit", "2000">> >>)
        response == request_with_orgId_api_2(srv, k, create_node_elm)
    IN  IF response.fault
        THEN Outcome(<<create_node_elm>>, APIException)
        ELSE Outcome(<<create_node_elm>>,
                Return([cls |-> "NttCisVIPNode",
                        id |-> InfoValue(response, "nodeId"),
                        name |-> InfoValue(response, "name"),
                        status |-> "State.RUNNING",
                        ip |-> ip]))

\* ex_create_pool_member with the texts of poolId and nodeId exchanged
ex_create_pool_member_swapped(pool, node, port, srv, k) ==
    LET create_pool_m ==
            Post("addPoolMember", None,
                 << <<"poolId", node.id>>, <<"nodeId", pool.id>> >>
                 \o (IF port # PyNone THEN << <<"port", str(port)>> >> ELSE <<>>)
                 \o << <<"status", "ENABLED">> >>)
        response == request_with_orgId_api_2(srv, k, create_pool_m)
    IN  IF response.fault
        THEN Outcome(<<create_pool_m>>, APIException)
        ELSE Outcome(<<create_pool_m>>,
                Return([cls |-> "NttCisPoolMember",
                        id |-> InfoValue(response, "poolMemberId"),
                        name |-> InfoValue(response, "nodeName"),
                        status |-> "State.RUNNING",
                        ip |-> node.ip,
                        port |-> port,
                        node_id |-> node.id]))

\* NttCisLBDriver.ex_create_pool_member; node is any object with id and ip
ex_create_pool_member(pool, node, port, srv, k) ==
    LET create_pool_m ==
            Post("addPoolMember", None,
                 << <<"poolId", pool.id>>, <<"nodeId", node.id>> >>
                 \o (IF port # PyNone THEN << <<"port", str(port)>> >> ELSE <<>>)
                 \o << <<"status", "ENABLED">> >>)
        response == request_with_orgId_api_2(srv, k, create_pool_m)
    IN  IF response.fault
        THEN Outcome(<<create_pool_m>>, APIException)
        ELSE Outcome(<<create_pool_m>>,
                Return([cls |-> "NttCisPoolMember",
                        id |-> InfoValue(response, "poolMemberId"),
                        name |-> InfoValue(response, "nodeName"),
                        status |-> "State.RUNNING",
                        ip |-> node.ip,
                        port |-> port,
                        node_id |-> node.id]))

\* the listener type ex_create_virtual_listener derives from the port
ListenerType(port) ==
    IF port = PyInt(80) \/ port = PyInt(443) THEN "PERFORMANCE_LAYER_4" ELSE "STANDARD"

\* NttCisLBDriver.ex_create_virtual_listener, with persistence_profile,
\* fallback_persistence_profile and irule None and the default limits
ex_create_virtual_listener(nd, name, ex_description, port, pool, protocol, optimization_profile, listener_ip_address, srv, k) ==
    LET listener_type == ListenerType(port)
        create_node_elm ==
            Post("createVirtualListener", None,
                 << <<"networkDomainId", nd>>,
                    <<"name", name>>,
                    <<"description", ex_description>>,
                    <<"type", listener_type>>,
                    <<"protocol", protocol>> >>
                 \o (IF listener_ip_address # None
                     THEN << <<"listenerIpAddress", listener_ip_address>> >> ELSE <<>>)
                 \o (IF port # PyNone THEN << <<"port", str(port)>> >> ELSE <<>>)
                 \o << <<"enabled", "true">>,
                       <<"connectionLimit", "25000">>,
                       <<"connectionRateLimit", "2000">>,
                       <<"sourcePortPreservation", "PRESERVE">> >>
                 \o (IF ~IsNone(pool) THEN << <<"poolId", pool.id>> >> ELSE <<>>)
                 \o (IF optimization_profile # None
                     THEN << <<"optimizationProfile", optimization_profile>> >>
                     ELSE <<>>))
        response == request_with_orgId_api_2(srv, k, create_node_elm)
    IN  IF listener_type = "STANDARD" /\ optimization_profile = None
        THEN Outcome(<<>>, Raise("ValueError"))
        ELSE IF response.fault
        THEN Outcome(<<create_node_elm>>, APIException)
        ELSE Outcome(<<create_node_elm>>,
                Return([cls |-> "NttCisVirtualListener",
                        id |-> InfoValue(response, "virtualListenerId"),
                        name |-> name,
                        ip |-> InfoValue(response, "listenerIpAddress"),
                        status |-> "State.RUNNING"]))

\* the loop of create_balancer over members[i..]: a node is created for each
\* element that is not a Member, and each element joins the pool; k is the
\* position in the call of the next request
RECURSIVE AttachMembers(_, _, _, _, _, _, _)
AttachMembers(nd, pool, members, port, srv, k, i) ==
    IF i > Len(members)
    THEN Outcome(<<>>, Return(None))
    ELSE LET member == members[i]
             n == IF member.cls # "Member"
                  THEN IF Len(member.private_ips) = 0
                       THEN Outcome(<<>>, Raise("IndexError"))
                       ELSE ex_create_node(nd, member.name, member.private_ips[1],
                                           None, srv, k)
                  ELSE Outcome(<<>>, Return(member))
         IN  IF n.ret.kind = "raise"
             THEN n
             ELSE LET pm == ex_create_pool_member(pool, n.ret.value, port, srv,
                                                  k + Len(n.reqs))
                  IN  IF pm.ret.kind = "raise"
                      THEN Outcome(n.reqs \o pm.reqs, pm.ret)
                      ELSE LET rest == AttachMembers(nd, pool, members, port, srv,
                                                     k + Len(n.reqs) + 1, i + 1)
                           IN  Outcome(n.reqs \o pm.reqs \o rest.reqs, rest.ret)

\* create_balancer deleting its pool again when the listener cannot be created
create_balancer_deleting_pool(self_nd, name, listener_port, port, protocol, algorithm, members, optimization_profile, ex_listener_ip_address, srv) ==
    LET nd == self_nd
        protocol1 == IF protocol = None THEN "http" ELSE protocol
        algorithm1 == IF algorithm = None THEN DEFAULT_ALGORITHM ELSE algorithm
    IN  IF algorithm1 \notin DOMAIN _ALGORITHM_TO_VALUE_MAP
        THEN Outcome(<<>>, Raise("KeyError"))
        ELSE
        LET p == ex_create_pool(nd, name, _ALGORITHM_TO_VALUE_MAP[algorithm1], None, srv, 1)
        IN  IF p.ret.kind = "raise"
            THEN p
            ELSE
            LET pool == p.ret.value
                m == IF ~IsNone(members)
                     THEN AttachMembers(nd, pool, members.items, port, srv, 2, 1)
                     ELSE Outcome(<<>>, Return(None))
            IN  IF m.ret.kind = "raise"
                THEN Outcome(p.reqs \o m.reqs, m.ret)
                ELSE
                LET l == ex_create_virtual_listener(nd, name, name, listener_port, pool,
                            protocol1, optimization_profile, ex_listener_ip_address,
                            srv, 2 + Len(m.reqs))
                IN  IF l.ret.kind = "raise"
                    THEN Outcome(p.reqs \o m.reqs \o l.reqs
                                 \o <<Post("deletePool", pool.id, <<>>)>>, l.ret)
                    ELSE
                    LET listener == l.ret.value
                    IN  Outcome(p.reqs \o m.reqs \o l.reqs,
                            Return([cls |-> "LoadBalancer",
                                    id |-> listener.id,
                                    name |-> listener.name,
                                    state |-> "State.RUNNING",
                                    ip |-> listener.ip,
                                    port |-> port,
                                    extra |-> [pool_id |-> pool.id,
                                               network_domain_id |-> nd,
                                               listener_ip_address |->
                                                    ex_listener_ip_address]]))

\* create_balancer passing protocol on as given, None included
create_balancer_protocol_not_defaulted(self_nd, name, listener_port, port, protocol, algorithm, members, optimization_profile, ex_listener_ip_address, srv) ==
    LET nd == self_nd
        protocol1 == protocol
        algorithm1 == IF algorithm = None THEN DEFAULT_ALGORITHM ELSE algorithm
    IN  IF algorithm1 \notin DOMAIN _ALGORITHM_TO_VALUE_MAP
        THEN Outcome(<<>>, Raise("KeyError"))
        ELSE
        LET p == ex_create_pool(nd, name, _ALGORITHM_TO_VALUE_MAP[algorithm1], None, srv, 1)
        IN  IF p.ret.kind = "raise"
            THEN p
            ELSE
            LET pool == p.ret.value
                m == IF ~IsNone(members)
                     THEN AttachMembers(nd, pool, members.items, port, srv, 2, 1)
                     ELSE Outcome(<<>>, Return(None))
            IN  IF m.ret.kind = "raise"
                THEN Outcome(p.reqs \o m.reqs, m.ret)
                ELSE
                LET l == ex_create_virtual_listener(nd, name, name, listener_port, pool,
                            protocol1, optimization_profile, ex_listener_ip_address,
                            srv, 2 + Len(m.reqs))
                IN  IF l.ret.kind = "raise"
                    THEN Outcome(p.reqs \o m.reqs \o l.reqs, l.ret)
                    ELSE
                    LET listener == l.ret.value
                    IN  Outcome(p.reqs \o m.reqs \o l.reqs,
                            Return([cls |-> "LoadBalancer",
                                    id |-> listener.id,
                                    name |-> listener.name,
                                    state |-> "State.RUNNING",
                                    ip |-> listener.ip,
                                    port |-> port,
                                    extra |-> [pool_id |-> pool.id,
                                               network_domain_id |-> nd,
                                               listener_ip_address |->
                                                    ex_listener_ip_address]]))

\* NttCisLBDriver.create_balancer; self_nd is self.network_domain_id
create_balancer(self_nd, name, listener_port, port, protocol, algorithm, members, optimization_profile, ex_listener_ip_address, srv) ==
    LET nd == self_nd
        protocol1 == IF protocol = None THEN "http" ELSE protocol
        algorithm1 == IF algorithm = None THEN DEFAULT_ALGORITHM ELSE algorithm
    IN  IF algorithm1 \notin DOMAIN _ALGORITHM_TO_VALUE_MAP
        THEN Outcome(<<>>, Raise("KeyError"))
        ELSE
        LET p == ex_create_pool(nd, name, _ALGORITHM_TO_VALUE_MAP[algorithm1], None, srv, 1)
        IN  IF p.ret.kind = "raise"
            THEN p
            ELSE
            LET pool == p.ret.value
                m == IF ~IsNone(members)
                     THEN AttachMembers(nd, pool, members.items, port, srv, 2, 1)
                     ELSE Outcome(<<>>, Return(None))
            IN  IF m.ret.kind = "raise"
                THEN Outcome(p.reqs \o m.reqs, m.ret)
                ELSE
                LET l == ex_create_virtual_listener(nd, name, name, listener_port, pool,
                            protocol1, optimization_profile, ex_listener_ip_address,
                            srv, 2 + Len(m.reqs))
                IN  IF l.ret.kind = "raise"
                    THEN Outcome(p.reqs \o m.reqs \o l.reqs, l.ret)
                    ELSE
                    LET listener == l.ret.value
                    IN  Outcome(p.reqs \o m.reqs \o l.reqs,
                            Return([cls |-> "LoadBalancer",
                                    id |-> listener.id,
                                    name |-> listener.name,
                                    state |-> "State.RUNNING",
                                    ip |-> listener.ip,
                                    port |-> port,
                                    extra |-> [pool_id |-> pool.id,
                                               network_domain_id |-> nd,
                                               listener_ip_address |->
                                                    ex_listener_ip_address]]))

\* NttCisLBDriver.ex_set_node_state
ex_set_node_state(node, enabled, srv) ==
    LET create_node_elm ==
            Post("editNode", None,
                 << <<"status", IF enabled = TRUE THEN "ENABLED" ELSE "DISABLED">> >>)
        response == request_with_orgId_api_2(srv, 1, create_node_elm)
    IN  IF response.fault
        THEN Outcome(<<create_node_elm>>, APIException)
        ELSE Outcome(<<create_node_elm>>, Return(node))

\* NttCisLBDriver.ex_update_node
ex_update_node(node, srv) ==
    LET create_node_elm ==
            Post("editNode", node.id,
                 << <<"healthMonitorId", node.health_monitor_id>>,
                    <<"connectionLimit", node.connection_limit>>,
                    <<"connectionRateLimit", node.connection_rate_limit>> >>)
        response == request_with_orgId_api_2(srv, 1, create_node_elm)
    IN  IF response.fault
        THEN Outcome(<<create_node_elm>>, APIException)
        ELSE Outcome(<<create_node_elm>>, Return(node))

\* NttCisLBDriver.ex_update_pool
ex_update_pool(pool, srv) ==
    LET create_node_elm ==
            Post("editPool", pool.id,
                 << <<"loadBalanceMethod", pool.load_balance_method>>,
                    <<"healthMonitorId", pool.health_monitor_id>>,
                    <<"serviceDownAction", pool.service_down_action>>,
                    <<"slowRampTime", pool.slow_ramp_time>> >>)
        response == request_with_orgId_api_2(srv, 1, create_node_elm)
    IN  IF response.fault
        THEN Outcome(<<create_node_elm>>, APIException)
        ELSE Outcome(<<create_node_elm>>, Return(Succeeded(response)))

----------------------------------------------------------------------------
(* Parsing the server's elements into DTOs.  An element is a record of the  *)
(* texts of its child elements and of its attributes, None where the child  *)
(* or attribute is missing.                                                 *)

\* NttCisLBDriver._to_node
_to_node(element) ==
    LET ipaddress == IF element.ipv4Address = None
                     THEN element.ipv6Address ELSE element.ipv4Address
    IN  [cls |-> "NttCisVIPNode",
         id |-> element.id,
         name |-> element.name,
         status |-> DictGet(_VALUE_TO_STATE_MAP, element.state, "State.UNKNOWN"),
         health_monitor |-> element.healthMonitor,
         connection_rate_limit |-> element.connectionRateLimit,
         connection_limit |-> element.connectionLimit,
         ip |-> ipaddress]

\* NttCisLBDriver._to_nodes
_to_nodes(object) == [i \in DOMAIN object |-> _to_node(object[i])]

\* NttCisLBDriver._to_balancer
_to_balancer(element) ==
    [cls |-> "LoadBalancer",
     id |-> element.id,
     name |-> element.name,
     state |-> DictGet(_VALUE_TO_STATE_MAP, element.state, "State.UNKNOWN"),
     ip |-> element.listenerIpAddress,
     port |-> element.port,
     extra |-> [pool_id |-> element.pool,
                network_domain_id |-> element.networkDomainId]]

\* NttCisLBDriver._to_balancers
_to_balancers(object) == [i \in DOMAIN object |-> _to_balancer(object[i])]

\* NttCisLBDriver._to_member
_to_member(element) ==
    LET port == IF element.port # PyNone THEN int(element.port) ELSE element.port
    IN  [cls |-> "NttCisPoolMember",
         id |-> element.id,
         name |-> element.node.name,
         status |-> element.state,
         node_id |-> element.node.id,
         ip |-> element.node.ipAddress,
         port |-> port]

\* NttCisLBDriver._to_members
_to_members(object) == [i \in DOMAIN object |-> _to_member(object[i])]

\* NttCisLBDriver._to_pool
_to_pool(element) ==
    [cls |-> "NttCisPool",
     id |-> element.id,
     name |-> element.name,
     status |-> element.state,
     description |-> element.description,
     load_balance_method |-> element.loadBalanceMethod,
     health_monitor_id |-> element.healthMonitorId,
     service_down_action |-> element.serviceDownAction,
     slow_ramp_time |-> element.slowRampTime]

\* NttCisLBDriver._to_pools
_to_pools(object) == [i \in DOMAIN object |-> _to_pool(object[i])]

----------------------------------------------------------------------------
(* Fetch operations: one GET, whose answer `object` is parsed *)

\* NttCisLBDriver.get_balancer
get_balancer(balancer_id, srv, bal) ==
    LET req == Get("virtualListener", balancer_id)
    IN  IF request_with_orgId_api_2(srv, 1, req).fault
        THEN Outcome(<<req>>, APIException)
        ELSE Outcome(<<req>>, Return(_to_balancer(bal)))

\* NttCisLBDriver.list_balancers
list_balancers(srv, object) ==
    LET req == Get("virtualListener", None)
    IN  IF request_with_orgId_api_2(srv, 1, req).fault
        THEN Outcome(<<req>>, APIException)
        ELSE Outcome(<<req>>, Return(_to_balancers(object)))

\* NttCisLBDriver.ex_get_node
ex_get_node(node_id, srv, nodes) ==
    LET req == Get("node", node_id)
    IN  IF request_with_orgId_api_2(srv, 1, req).fault
        THEN Outcome(<<req>>, APIException)
        ELSE Outcome(<<req>>, Return(_to_node(nodes)))

\* NttCisLBDriver.ex_get_nodes
ex_get_nodes(srv, nodes) ==
    LET req == Get("node", None)
    IN  IF request_with_orgId_api_2(srv, 1, req).fault
        THEN Outcome(<<req>>, APIException)
        ELSE Outcome(<<req>>, Return(_to_nodes(nodes)))

\* NttCisLBDriver.ex_get_pool
ex_get_pool(pool_id, srv, pool, k) ==
    LET req == Get("pool", pool_id)
    IN  IF request_with_orgId_api_2(srv, k, req).fault
        THEN Outcome(<<req>>, APIException)
        ELSE Outcome(<<req>>, Return(_to_pool(pool)))

\* NttCisLBDriver.ex_get_pools
ex_get_pools(srv, pools) ==
    LET req == Get("pool", None)
    IN  IF request_with_orgId_api_2(srv, 1, req).fault
        THEN Outcome(<<req>>, APIException)
        ELSE Outcome(<<req>>, Return(_to_pools(pools)))

\* NttCisLBDriver.ex_get_pool_member
ex_get_pool_member(pool_member_id, srv, member) ==
    LET req == Get("poolMember", pool_member_id)
    IN  IF request_with_orgId_api_2(srv, 1, req).fault
        THEN Outcome(<<req>>, APIException)
        ELSE Outcome(<<req>>, Return(_to_member(member)))

\* NttCisLBDriver.ex_get_pool_members
ex_get_pool_members(pool_id, srv, members) ==
    LET req == Get("poolMember?poolId", pool_id)
    IN  IF request_with_orgId_api_2(srv, 1, req).fault
        THEN Outcome(<<req>>, APIException)
        ELSE Outcome(<<req>>, Return(_to_members(members)))

----------------------------------------------------------------------------
(* Attaching a member *)

\* Python's False, and `x is False`
False == [cls |-> "bool", value |-> FALSE]
IsFalse(x) == x.cls = "bool" /\ x.value = FALSE

\* NttCisLBDriver.balancer_attach_member; pool_element is what the server
\* answers the GET of the balancer's pool with
balancer_attach_member(balancer, member, srv, pool_element) ==
    LET created == ex_create_node(balancer.extra.network_domain_id,
                                  "Member." \o member.ip, member.ip, "", srv, 1)
        node == created.ret.value
        fetched == ex_get_pool(balancer.extra.pool_id, srv, pool_element, 2)
        pool == fetched.ret.value
        added == ex_create_pool_member(pool, node, member.port, srv, 3)
        pool_member == added.ret.value
    IN  IF created.ret.kind = "raise" THEN created
        ELSE IF IsFalse(node) THEN Outcome(created.reqs, Return(False))
        ELSE IF fetched.ret.kind = "raise"
        THEN Outcome(created.reqs \o fetched.reqs, fetched.ret)
        ELSE IF added.ret.kind = "raise"
        THEN Outcome(created.reqs \o fetched.reqs \o added.reqs, added.ret)
        ELSE Outcome(created.reqs \o fetched.reqs \o added.reqs,
                     Return([member EXCEPT !.id = pool_member.id]))

----------------------------------------------------------------------------
(* Waiting for a state *)

\* whether a status is the desired state (a str) or one of the desired states
\* (a list)
Matches(status, state) ==
    IF state.cls = "list"
    THEN \E i \in DOMAIN state.items : state.items[i] = status
    ELSE status = state.value

\* NttCisConnection.wait_for_state, the linear poll loop with a timeout:
\*     cnt = 0
\*     while cnt < timeout / poll_interval:
\*         result = func(*args, **kwargs)
\*         if <result.status matches state>: return result
\*         sleep(poll_interval); cnt += 1
\*     raise NttCisAPIException("Status check for object ... timed out")
\* func(cnt + 1) is what the cnt+1-th call of func returns.  The outcome also
\* tells how often func was called and how long the loop slept.
RECURSIVE wait_for_state(_, _, _, _, _)
wait_for_state(state, func, poll_interval, timeout, cnt) ==
    IF cnt * poll_interval < timeout
    THEN LET result == func[cnt + 1]
         IN  IF Matches(result.status, state)
             THEN [ret |-> Return(result), calls |-> cnt + 1, slept |-> cnt * poll_interval]
             ELSE wait_for_state(state, func, poll_interval, timeout, cnt + 1)
    ELSE [ret |-> Raise("NttCisAPIException: timed out"), calls |-> cnt,
          slept |-> cnt * poll_interval]

\* NttCisLBDriver.ex_wait_for_state
ex_wait_for_state(state, func, poll_interval, timeout) ==
    wait_for_state(state, func, poll_interval, timeout, 0)

----------------------------------------------------------------------------
(* The vCloud compute driver, as its tests use it: guest customization *)

VCloudNS == "http://www.vmware.com/vcloud/v1.5"

\* an XML element with text and no children, and one with children
Element(name, text) == [tag |-> <<VCloudNS, name>>, text |-> text]
Section(name, children) == [tag |-> <<VCloudNS, name>>, children |-> children]

\* fixxpath(root, xpath): the tag qualified with the namespace of root
fixxpath(root, xpath) == <<root.tag[1], xpath>>

\* root.find(path): the position of the first child with this tag, 0 for None
find(root, path) ==
    IF \E i \in DOMAIN root.children : root.children[i].tag = path
    THEN CHOOSE i \in DOMAIN root.children :
            /\ root.children[i].tag = path
            /\ \A j \in 1..(i - 1) : root.children[j].tag # path
    ELSE 0

\* root.remove(child), for the child at position i
remove(root, i) ==
    [root EXCEPT !.children =
        [j \in 1..(Len(root.children) - 1) |->
            IF j < i THEN root.children[j] ELSE root.children[j + 1]]]

\* VCloud_1_5_NodeDriver._remove_admin_password: the AdminPassword element is
\* removed unless AdminPasswordEnabled is 'true' and AdminPasswordAuto is
\* 'false'
_remove_admin_password(guest_customization_section) ==
    LET section == guest_customization_section
        admin_pass_enabled == find(section, fixxpath(section, "AdminPasswordEnabled"))
        admin_pass_auto == find(section, fixxpath(section, "AdminPasswordAuto"))
        admin_pass == find(section, fixxpath(section, "AdminPassword"))
    IN  IF /\ admin_pass # 0
           /\ \/ admin_pass_enabled = 0
              \/ section.children[admin_pass_enabled].text # "true"
              \/ admin_pass_auto = 0
              \/ section.children[admin_pass_auto].text # "false"
        THEN remove(section, admin_pass)
        ELSE section

\* the table of test_remove_admin_password with one expectation wrong: the
\* password is expected to stay when AdminPasswordAuto is absent
RemoveAdminPasswordCasesAutoAbsent ==
    {[enabled |-> e, auto |-> a, passwd |-> p,
      pass_exists |-> (e = "true" /\ a # "true" /\ p # "")] :
        e \in {"true", "false", ""}, a \in {"true", "false", ""},
        p \in {"testpassword", ""}}

\* the table of test_remove_admin_password: the text of AdminPasswordEnabled,
\* of AdminPasswordAuto and of AdminPassword ("" when the element is left
\* out), and whether the test expects an AdminPassword element afterwards
RemoveAdminPasswordCases ==
    {[enabled |-> "true", auto |-> "true", passwd |-> "testpassword", pass_exists |-> FALSE],
     [enabled |-> "true", auto |-> "true", passwd |-> "", pass_exists |-> FALSE],
     [enabled |-> "true", auto |-> "false", passwd |-> "testpassword", pass_exists |-> TRUE],
     [enabled |-> "true", auto |-> "false", passwd |-> "", pass_exists |-> FALSE],
     [enabled |-> "true", auto |-> "", passwd |-> "testpassword", pass_exists |-> FALSE],
     [enabled |-> "true", auto |-> "", passwd |-> "", pass_exists |-> FALSE],
     [enabled |-> "false", auto |-> "true", passwd |-> "testpassword", pass_exists |-> FALSE],
     [enabled |-> "false", auto |-> "true", passwd |-> "", pass_exists |-> FALSE],
     [enabled |-> "false", auto |-> "false", passwd |-> "testpassword", pass_exists |-> FALSE],
     [enabled |-> "false", auto |-> "false", passwd |-> "", pass_exists |-> FALSE],
     [enabled |-> "false", auto |-> "", passwd |-> "testpassword", pass_exists |-> FALSE],
     [enabled |-> "false", auto |-> "", passwd |-> "", pass_exists |-> FALSE],
     [enabled |-> "", auto |-> "true", passwd |-> "testpassword", pass_exists |-> FALSE],
     [enabled |-> "", auto |-> "true", passwd |-> "", pass_exists |-> FALSE],
     [enabled |-> "", auto |-> "false", passwd |-> "testpassword", pass_exists |-> FALSE],
     [enabled |-> "", auto |-> "false", passwd |-> "", pass_exists |-> FALSE],
     [enabled |-> "", auto |-> "", passwd |-> "testpassword", pass_exists |-> FALSE],
     [enabled |-> "", auto |-> "", passwd |-> "", pass_exists |-> FALSE]}

\* ET.fromstring of the section the test builds for one row of its table
GuestCustomizationSection(row) ==
    Section("GuestCustomizationSection",
        (IF row.enabled # "" THEN <<Element("AdminPasswordEnabled", row.enabled)>> ELSE <<>>)
        \o (IF row.auto # "" THEN <<Element("AdminPasswordAuto", row.auto)>> ELSE <<>>)
        \o (IF row.passwd # "" THEN <<Element("AdminPassword", row.passwd)>> ELSE <<>>))

----------------------------------------------------------------------------
(* The vCloud compute driver: changing the customization script of a VM *)

\* _get_vm_elements as the test patches it: side_effect=CallException("Called")
_get_vm_elements == Raise("CallException")

\* VCloud_1_5_NodeDriver._change_vm_script up to its call of
\* _get_vm_elements: the script text is read from the file vm_script only
\* when no vm_script_text is given; without a script, or when the file cannot
\* be read, the method returns.  open_succeeds: whether open(vm_script) does.
_change_vm_script(vm_script, vm_script_text, open_succeeds) ==
    IF vm_script_text = None
    THEN IF vm_script = None
         THEN [open_call_count |-> 0, ret |-> Return(None)]
         ELSE IF open_succeeds
              THEN [open_call_count |-> 1, ret |-> _get_vm_elements]
              ELSE [open_call_count |-> 1, ret |-> Return(None)]
    ELSE [open_call_count |-> 0, ret |-> _get_vm_elements]

\* the table of test_change_vm_script_text_and_file_logic with one
\* expectation wrong: the file is expected to be opened although a text is
\* given
ChangeVmScriptCasesFileAlwaysOpened ==
    {[vm_script_file |-> f, vm_script_text |-> t, open_succeeds |-> o,
      open_call_count |-> IF f # None THEN 1 ELSE 0,
      returned_early |-> (t = None /\ (f = None \/ ~o))] :
        f \in {None, "file.sh"}, t \in {None, "script text"}, o \in BOOLEAN}

\* the table of test_change_vm_script_text_and_file_logic
ChangeVmScriptCases ==
    {[vm_script_file |-> None, vm_script_text |-> None, open_succeeds |-> TRUE,
      open_call_count |-> 0, returned_early |-> TRUE],
     [vm_script_file |-> None, vm_script_text |-> None, open_succeeds |-> FALSE,
      open_call_count |-> 0, returned_early |-> TRUE],
     [vm_script_file |-> None, vm_script_text |-> "script text", open_succeeds |-> TRUE,
      open_call_count |-> 0, returned_early |-> FALSE],
     [vm_script_file |-> None, vm_script_text |-> "script text", open_succeeds |-> FALSE,
      open_call_count |-> 0, returned_early |-> FALSE],
     [vm_script_file |-> "file.sh", vm_script_text |-> None, open_succeeds |-> TRUE,
      open_call_count |-> 1, returned_early |-> FALSE],
     [vm_script_file |-> "file.sh", vm_script_text |-> None, open_succeeds |-> FALSE,
      open_call_count |-> 1, returned_early |-> TRUE],
     [vm_script_file |-> "file.sh", vm_script_text |-> "script text", open_succeeds |-> TRUE,
      open_call_count |-> 0, returned_early |-> FALSE],
     [vm_script_file |-> "file.sh", vm_script_text |-> "script text", open_succeeds |-> FALSE,
      open_call_count |-> 0, returned_early |-> FALSE]}

----------------------------------------------------------------------------
(* The vCloud compute driver: leases *)

\* datetime.datetime(2019, 10, day, 14, 6, 29, 980725, tzinfo=UTC), as the
\* seconds and microseconds since the start of October 2019
datetime(day) ==
    [cls |-> "datetime",
     seconds |-> ((day - 1) * 24 + 14) * 3600 + 6 * 60 + 29,
     microsecond |-> 980725]

\* a datetime minus datetime.timedelta(seconds=n)
MinusSeconds(d, n) == [d EXCEPT !.seconds = @ - n]

\* Lease(lease_id, deployment_lease, storage_lease,
\*       deployment_lease_expiration, storage_lease_expiration)
Lease(deployment_lease, storage_lease, deployment_lease_expiration, storage_lease_expiration) ==
    [cls |-> "Lease",
     deployment_lease |-> deployment_lease,
     storage_lease |-> storage_lease,
     deployment_lease_expiration |-> deployment_lease_expiration,
     storage_lease_expiration |-> storage_lease_expiration]

\* Lease.get_deployment_time: the time is inferred from the deployment lease
\* and its expiration or, failing that, from the storage lease and its
\* expiration
get_deployment_time(self) ==
    IF self.deployment_lease # PyNone /\ ~IsNone(self.deployment_lease_expiration)
    THEN Return(MinusSeconds(self.deployment_lease_expiration, self.deployment_lease[2]))
    ELSE IF self.storage_lease # PyNone /\ ~IsNone(self.storage_lease_expiration)
    THEN Return(MinusSeconds(self.storage_lease_expiration, self.storage_lease[2]))
    ELSE Raise("Cannot get time deployed. Missing complete lease and expiration information.")

\* the datetimes of test_lease_get_time_deployed
deployment_datetime == datetime(6)
deployment_lease_exp_actual == datetime(7)
storage_lease_exp_actual == datetime(8)

\* one row of the table of test_lease_get_time_deployed
LeaseCase(deployment_lease, storage_lease, deployment_lease_exp, storage_lease_exp, exception, res) ==
    [deployment_lease |-> deployment_lease, storage_lease |-> storage_lease,
     deployment_lease_exp |-> deployment_lease_exp,
     storage_lease_exp |-> storage_lease_exp,
     exception |-> exception, res |-> res]

\* the table of test_lease_get_time_deployed with wrong expectations: a lease
\* duration alone is expected to be enough
LeaseCasesDurationIsEnough ==
    {LeaseCase(dl, sl, de, se, dl = PyNone /\ sl = PyNone, deployment_datetime) :
        dl \in {PyNone, PyInt(86400)}, sl \in {PyNone, PyInt(172800)},
        de \in {NoneObject, deployment_lease_exp_actual},
        se \in {NoneObject, storage_lease_exp_actual}}

\* the table of test_lease_get_time_deployed
LeaseCases ==
    {LeaseCase(PyNone, PyNone, NoneObject, NoneObject, TRUE, NoneObject),
     LeaseCase(PyNone, PyNone, NoneObject, storage_lease_exp_actual, TRUE, NoneObject),
     LeaseCase(PyNone, PyNone, deployment_lease_exp_actual, NoneObject, TRUE, NoneObject),
     LeaseCase(PyNone, PyNone, deployment_lease_exp_actual, storage_lease_exp_actual,
               TRUE, NoneObject),
     LeaseCase(PyNone, PyInt(172800), NoneObject, NoneObject, TRUE, NoneObject),
     LeaseCase(PyNone, PyInt(172800), NoneObject, storage_lease_exp_actual,
               FALSE, deployment_datetime),
     LeaseCase(PyNone, PyInt(172800), deployment_lease_exp_actual, NoneObject,
               TRUE, deployment_datetime),
     LeaseCase(PyNone, PyInt(172800), deployment_lease_exp_actual, storage_lease_exp_actual,
               FALSE, deployment_datetime),
     LeaseCase(PyInt(86400), PyNone, NoneObject, NoneObject, TRUE, NoneObject),
     LeaseCase(PyInt(86400), PyNone, NoneObject, storage_lease_exp_actual, TRUE, NoneObject),
     LeaseCase(PyInt(86400), PyNone, deployment_lease_exp_actual, NoneObject,
               FALSE, deployment_datetime),
     LeaseCase(PyInt(86400), PyNone, deployment_lease_exp_actual, storage_lease_exp_actual,
               FALSE, deployment_datetime),
     LeaseCase(PyInt(86400), PyInt(172800), NoneObject, NoneObject, TRUE, NoneObject),
     LeaseCase(PyInt(86400), PyInt(172800), NoneObject, storage_lease_exp_actual,
               FALSE, deployment_datetime),
     LeaseCase(PyInt(86400), PyInt(172800), deployment_lease_exp_actual, NoneObject,
               FALSE, deployment_datetime),
     LeaseCase(PyInt(86400), PyInt(172800), deployment_lease_exp_actual,
               storage_lease_exp_actual, FALSE, deployment_datetime)}

----------------------------------------------------------------------------
(* The vCloud compute driver: undeploying a vApp against the mocked server *)

\* the fixtures the mocked server answers with: a task that succeeded, a task
\* that ended in error, and the undeployed vApp (status 8: powered off)
api_task_undeploy == [href |-> "/api/task/undeploy", status |-> "success"]
api_task_undeploy_error == [href |-> "/api/task/undeployError", status |-> "error"]
api_vApp_undeployTest == [name |-> "testNode", status |-> "8"]

\* VCloud_1_5_MockHttp._api_vApp_undeployTest_action_undeploy
_api_vApp_undeployTest_action_undeploy(body) == Return(api_task_undeploy)

\* _api_vApp_undeployErrorTest_action_undeploy answering every undeploy, the
\* powerOff one too, with the task that ended in error
_api_vApp_undeployErrorTest_action_undeploy_always_error(body) ==
    Return(api_task_undeploy_error)

\* VCloud_1_5_MockHttp._api_vApp_undeployErrorTest_action_undeploy
_api_vApp_undeployErrorTest_action_undeploy(body) ==
    IF body = "shutdown" THEN Return(api_task_undeploy_error)
    ELSE Return(api_task_undeploy)

\* VCloud_1_5_MockHttp._api_vApp_undeployPowerOffTest_action_undeploy
_api_vApp_undeployPowerOffTest_action_undeploy(body) ==
    IF body # "powerOff" THEN Raise("AssertionError")
    ELSE _api_vApp_undeployTest_action_undeploy(body)

\* the mocked server's answer to POST <vapp>/action/undeploy; body is the
\* text of UndeployPowerAction
MockUndeploy(vapp, body) ==
    CASE vapp = "undeployTest" -> _api_vApp_undeployTest_action_undeploy(body)
      [] vapp = "undeployErrorTest" -> _api_vApp_undeployErrorTest_action_undeploy(body)
      [] vapp = "undeployPowerOffTest" -> _api_vApp_undeployPowerOffTest_action_undeploy(body)

\* the mocked server's answer to GET /api/task/...: _api_task_undeploy and
\* _api_task_undeployError
MockTask(href) ==
    IF href = "/api/task/undeployError" THEN api_task_undeploy_error
    ELSE api_task_undeploy

\* the driver's map from vApp status to NodeState, for the statuses used here
NODE_STATE_MAP ==
    [status \in {"4", "8"} |->
        IF status = "4" THEN "NodeState.RUNNING" ELSE "NodeState.STOPPED"]

\* _wait_for_task_completion(href): the task is fetched until it has
\* succeeded; a task that ended in error raises
_wait_for_task_completion(href) ==
    LET req == Get("task", href)
    IN  IF MockTask(href).status = "error"
        THEN Outcome(<<req>>, Raise("Exception: task error"))
        ELSE Outcome(<<req>>, Return(None))

\* undeploy(action) inside ex_undeploy_node: POST the UndeployVAppParams and
\* wait for the task the server answers with
undeploy(vapp, action) ==
    LET req == Post("undeploy", vapp, << <<"UndeployPowerAction", action>> >>)
        undeploy_res == MockUndeploy(vapp, action)
        waited == _wait_for_task_completion(undeploy_res.value.href)
    IN  IF undeploy_res.kind = "raise" THEN Outcome(<<req>>, undeploy_res)
        ELSE Outcome(<<req>> \o waited.reqs, waited.ret)

\* VCloud_1_5_NodeDriver.ex_undeploy_node: with shutdown the vApp is asked to
\* shut down and, when that raises, powered off; without, it is powered off;
\* the node is then read back from the server
ex_undeploy_node(vapp, shutdown) ==
    LET first == undeploy(vapp, IF shutdown THEN "shutdown" ELSE "powerOff")
        second == undeploy(vapp, "powerOff")
        done == IF shutdown /\ first.ret.kind = "raise"
                THEN Outcome(first.reqs \o second.reqs, second.ret)
                ELSE first
        res == Get("vApp", vapp)
    IN  IF done.ret.kind = "raise" THEN done
        ELSE Outcome(done.reqs \o <<res>>,
                     Return([cls |-> "Node", id |-> vapp,
                             name |-> api_vApp_undeployTest.name,
                             state |-> NODE_STATE_MAP[api_vApp_undeployTest.status]]))

----------------------------------------------------------------------------
(* The vCloud compute driver: setting the resources of a VM *)

\* the value of a decimal digit, -1 for any other character
Digit(c) ==
    CASE c = "0" -> 0 [] c = "1" -> 1 [] c = "2" -> 2 [] c = "3" -> 3 [] c = "4" -> 4
      [] c = "5" -> 5 [] c = "6" -> 6 [] c = "7" -> 7 [] c = "8" -> 8 [] c = "9" -> 9
      [] OTHER -> -1

\* the number a sequence of digits denotes after acc, -1 when a character is
\* no digit
RECURSIVE DigitsValue(_, _)
DigitsValue(s, acc) ==
    IF s = <<>> THEN acc
    ELSE IF Digit(Head(s)) < 0 THEN -1
    ELSE DigitsValue(Tail(s), acc * 10 + Digit(Head(s)))

\* int(s) for a str, given as its characters: digits with an optional sign,
\* ValueError otherwise
ParseInt(s) ==
    LET signed == s # <<>> /\ Head(s) \in {"-", "+"}
        digits == IF signed THEN Tail(s) ELSE s
    IN  IF digits = <<>> \/ DigitsValue(digits, 0) < 0 THEN Raise("ValueError")
        ELSE IF signed /\ Head(s) = "-" THEN Return(0 - DigitsValue(digits, 0))
        ELSE Return(DigitsValue(digits, 0))

\* 2 ** i
RECURSIVE Pow2(_)
Pow2(i) == IF i = 0 THEN 1 ELSE 2 * Pow2(i - 1)

\* the memory sizes (MB) and CPU counts a VM of API 1.5 may have
VIRTUAL_MEMORY_VALS_1_5 == {Pow2(i) : i \in 2..18}
VIRTUAL_CPU_VALS_1_5 == 1..8

\* _validate_vm_cpu, _validate_vm_memory, _validate_vm_disk_size: whether the
\* value is rejected with ValueError
_validate_vm_cpu(vm_cpu) == vm_cpu \notin VIRTUAL_CPU_VALS_1_5
_validate_vm_memory(vm_memory) == vm_memory \notin VIRTUAL_MEMORY_VALS_1_5
_validate_vm_disk_size(vm_disk) ==
    ParseInt(vm_disk).kind = "raise" \/ ParseInt(vm_disk).value < 0

\* ex_set_vm_cpu, ex_set_vm_memory, ex_add_vm_disk and create_node (with
\* ex_vm_memory): the value is validated first; a valid one is then sent to
\* the server in the section it belongs to
SetVmResource(vapp_or_vm_id, section, value, rejected) ==
    IF rejected THEN Outcome(<<>>, Raise("ValueError"))
    ELSE Outcome(<<Get("vApp", vapp_or_vm_id),
                   Post(section, vapp_or_vm_id, << <<section, value>> >>)>>,
                 Return(None))

ex_set_vm_cpu(vapp_or_vm_id, vm_cpu) ==
    SetVmResource(vapp_or_vm_id, "cpu", vm_cpu, _validate_vm_cpu(vm_cpu))

ex_set_vm_memory(vapp_or_vm_id, vm_memory) ==
    SetVmResource(vapp_or_vm_id, "memory", vm_memory, _validate_vm_memory(vm_memory))

ex_add_vm_disk(vapp_or_vm_id, vm_disk_size) ==
    SetVmResource(vapp_or_vm_id, "disks", vm_disk_size, _validate_vm_disk_size(vm_disk_size))

create_node(ex_vm_memory) ==
    SetVmResource("testerpart2", "instantiateVAppTemplate", ex_vm_memory,
                  _validate_vm_memory(ex_vm_memory))

\* the values of test_create_node_invalid_ex_vm_memory with 8 for 7
InvalidVmMemoryValuesWithEight == {1, 3, 8}

\* the values of test_create_node_invalid_ex_vm_memory and of
\* _test_create_node_valid_ex_vm_memory
InvalidVmMemoryValues == {1, 3, 7}
ValidVmMemoryValues == {4, 1024, 4096}

\* the values the tests call the setters with, and a few around them
VmCpuValues == {50, -1, 4, 0, 8, 9}
VmMemoryValues == {777, -1024, 1024, -4, 12}
VmDiskSizes ==
    {<<"i", "n", "v", "a", "l", "i", "d", " ", "v", "a", "l", "u", "e">>,
     <<"-", "1">>, <<"2", "0">>, <<"0">>, <<>>}

----------------------------------------------------------------------------
(* The vCloud compute driver: listing the nodes of vDCs *)

\* s.endswith(suffix), for strings given as their characters
endswith(s, suffix) ==
    /\ Len(s) >= Len(suffix)
    /\ SubSeq(s, Len(s) - Len(suffix) + 1, Len(s)) = suffix

ErrorTag == <<"E", "r", "r", "o", "r">>

\* AnotherErrorMember whose get() answers the very code of the
\* access-forbidden error
AnotherErrorMemberForbidden ==
    [tag |-> ErrorTag, minorErrorCode |-> "ACCESS_TO_RESOURCE_IS_FORBIDDEN"]

\* AnotherErrorMember: tag 'Error', and get() answers
\* 'ACCESS_TO_RESOURCE_IS_FORBIDDEN_1' whatever it is asked for
AnotherErrorMember ==
    [tag |-> ErrorTag, minorErrorCode |-> "ACCESS_TO_RESOURCE_IS_FORBIDDEN_1"]

\* AnotherError(m)
AnotherError(m) == [cls |-> "AnotherError", args |-> <<m>>]

\* the <Error> element of api_vApp_vapp_access_to_resource_forbidden.xml
api_vApp_vapp_access_to_resource_forbidden ==
    [tag |-> <<"{", "v", "1", ".", "5", "}">> \o ErrorTag,
     minorErrorCode |-> "ACCESS_TO_RESOURCE_IS_FORBIDDEN"]

\* the mocked server's answer to the GET of a vApp: _api_vApp_vapp_errorRaiser,
\* _api_vApp_vapp_access_to_resource_forbidden, a vApp whose fetch raises with
\* another error element or with an element that is no error, and a vApp
\* that is there
MockVApp(vapp) ==
    CASE vapp = "vapp-errorRaiser" -> Raise(AnotherError(AnotherErrorMember))
      [] vapp = "vapp-access-to-resource-forbidden" ->
            Raise([cls |-> "Exception",
                   args |-> <<api_vApp_vapp_access_to_resource_forbidden>>])
      [] vapp = "vapp-busy" ->
            Raise([cls |-> "Exception",
                   args |-> <<[tag |-> ErrorTag, minorErrorCode |-> "BUSY_ENTITY"]>>])
      [] vapp = "vapp-task" ->
            Raise([cls |-> "Exception",
                   args |-> <<[tag |-> <<"T", "a", "s", "k">>,
                               minorErrorCode |-> "ACCESS_TO_RESOURCE_IS_FORBIDDEN"]>>])
      [] OTHER -> Return([cls |-> "Node", id |-> vapp, name |-> "testNode",
                          state |-> NODE_STATE_MAP["4"]])

VApps ==
    {"vapp-errorRaiser", "vapp-access-to-resource-forbidden", "vapp-busy", "vapp-task",
     "vapp-a", "vapp-b"}

\* the loop of ex_list_nodes over the vApps i.. of one vDC: a vApp whose fetch
\* raises the access-forbidden error is skipped, any other exception is
\* raised again
RECURSIVE ListVApps(_, _)
ListVApps(vapps, i) ==
    IF i > Len(vapps) THEN Outcome(<<>>, Return(<<>>))
    ELSE LET req == Get("vApp", vapps[i])
             res == MockVApp(vapps[i])
             rest == ListVApps(vapps, i + 1)
         IN  IF res.kind = "raise"
             THEN IF /\ endswith(res.value.args[1].tag, ErrorTag)
                     /\ res.value.args[1].minorErrorCode = "ACCESS_TO_RESOURCE_IS_FORBIDDEN"
                  THEN Outcome(<<req>> \o rest.reqs, rest.ret)
                  ELSE Outcome(<<req>>, res)
             ELSE IF rest.ret.kind = "raise"
                  THEN Outcome(<<req>> \o rest.reqs, rest.ret)
                  ELSE Outcome(<<req>> \o rest.reqs, Return(<<res.value>> \o rest.ret.value))

\* the loop of ex_list_nodes over the vDCs i..; a vDC is given by its id and
\* the vApps the server lists in it
RECURSIVE ListVdcs(_, _)
ListVdcs(vdcs, i) ==
    IF i > Len(vdcs) THEN Outcome(<<>>, Return(<<>>))
    ELSE LET req == Get("vdc", vdcs[i].id)
             here == ListVApps(vdcs[i].vapps, 1)
             rest == ListVdcs(vdcs, i + 1)
         IN  IF here.ret.kind = "raise" THEN Outcome(<<req>> \o here.reqs, here.ret)
             ELSE IF rest.ret.kind = "raise"
             THEN Outcome(<<req>> \o here.reqs \o rest.reqs, rest.ret)
             ELSE Outcome(<<req>> \o here.reqs \o rest.reqs,
                          Return(here.ret.value \o rest.ret.value))

\* VCloud_1_5_NodeDriver.ex_list_nodes(vdcs=None): the driver's own vDCs when
\* none are given, and a single Vdc is taken for a list of one
ex_list_nodes(self_vdcs, vdcs) ==
    LET vdcs1 == IF IsNone(vdcs) \/ (vdcs.cls = "list" /\ vdcs.items = <<>>)
                 THEN [cls |-> "list", items |-> self_vdcs]
                 ELSE vdcs
        vdcs2 == IF vdcs1.cls # "list" THEN <<vdcs1>> ELSE vdcs1.items
    IN  ListVdcs(vdcs2, 1)

\* VCloud_1_5_NodeDriver.list_nodes
list_nodes(self_vdcs) == ex_list_nodes(self_vdcs, NoneObject)

\* Vdc(id, name, driver), with the vApps the server lists in it
Vdc(id, vapps) == [cls |-> "Vdc", id |-> id, vapps |-> vapps]

\* the vDC of test_ex_list_nodes__masked_exception
brokenVdc == Vdc("/api/vdc/brokenVdc", <<"vapp-errorRaiser">>)

----------------------------------------------------------------------------
(* The arguments and the server behaviours the calls are made with *)

Domains == {"nd1", "nd2"}

\* responseCode of an answer; None: the answer carries none
Codes == {"OK", "IN_PROGRESS", "RESOURCE_BUSY", None}

\* vendor state texts: the keys of the table, a text that is not a key, and
\* None for a missing <state> element
VendorStates == DOMAIN _VALUE_TO_STATE_MAP \cup {"RUNNING", None}

\* the vendor states the elements of a listing are in: one text for each
\* state of the table, a text that is not a key, and a missing state
ListingStates == {"NORMAL", "PENDING_CHANGE", "FAILED_DELETE", "RUNNING", None}

Names == {<<"l", "b">>, <<"m", "y", " ", "l", "b">>}

ListenerPorts == {PyNone, PyInt(80), PyInt(443), PyInt(8080)}

\* sequences over S of length at most n
SeqsUpTo(S, n) == UNION {[1..m -> S] : m \in 0..n}

\* a base.Member and a compute node, as handed to create_balancer
AMember == [cls |-> "Member", id |-> "m1", ip |-> "10.0.0.1", port |-> PyInt(8080)]
ANode == [cls |-> "Node", name |-> "web1", private_ips |-> <<"10.0.0.2">>]

MembersArgs ==
    {NoneObject} \cup
    {[cls |-> "list", items |-> l] : l \in SeqsUpTo({AMember, ANode}, MaxMembers)}

\* a server that answers the one request of a call, or fails it
AnswersWith(c) == Server(0, <<c>>, None, None, None)
Fails == Server(1, <<"OK">>, None, None, None)
OneAnswer == {AnswersWith(c) : c \in Codes} \cup {Fails}
OneFetch == {AnswersWith("OK"), Fails}

\* a server for a call of two requests
TwoAnswers ==
    {Server(0, <<c1, c2>>, None, None, None) : c1 \in Codes, c2 \in Codes}
    \cup {Server(1, <<"OK", "OK">>, None, None, None)}
    \cup {Server(2, <<c1, "OK">>, None, None, None) : c1 \in Codes}

\* a server that creates resources, failing at request f (0: never), and
\* giving a new listener the id vlId
Creates(f, vlId) == Server(f, <<>>, "pool1", vlId, "10.0.0.9")

\* DTOs handed to the calls
APool(hm) ==
    [cls |-> "NttCisPool", id |-> "pool1", name |-> <<"l", "b">>, description |-> None,
     status |-> "State.RUNNING", load_balance_method |-> "ROUND_ROBIN",
     health_monitor_id |-> hm, service_down_action |-> "NONE", slow_ramp_time |-> "30"]
AVIPNode(id) ==
    [cls |-> "NttCisVIPNode", id |-> id, name |-> "web1", status |-> "State.RUNNING",
     ip |-> "10.0.0.2", health_monitor_id |-> None, connection_limit |-> "25000",
     connection_rate_limit |-> "2000"]
APoolMember(id, node_id) ==
    [cls |-> "NttCisPoolMember", id |-> id, name |-> "web1", status |-> "State.RUNNING",
     ip |-> "10.0.0.2", port |-> PyInt(8080), node_id |-> node_id]
ABalancer(id) ==
    [cls |-> "LoadBalancer", id |-> id, name |-> <<"l", "b">>, state |-> "State.RUNNING",
     ip |-> "10.0.0.9", port |-> PyInt(8080),
     extra |-> [pool_id |-> "pool1", network_domain_id |-> "nd1"]]

\* elements the server answers a GET with
NodeElement(id, state, ip4) ==
    [id |-> id, name |-> "web1", state |-> state, ipv4Address |-> ip4,
     ipv6Address |-> IF ip4 = None THEN "fe80::2" ELSE None, healthMonitor |-> None,
     connectionRateLimit |-> "2000", connectionLimit |-> "25000"]
PoolElement(id, state) ==
    [id |-> id, name |-> <<"l", "b">>, state |-> state, description |-> None,
     loadBalanceMethod |-> "ROUND_ROBIN", healthMonitorId |-> None,
     serviceDownAction |-> "NONE", slowRampTime |-> "30"]
MemberElement(id, state, port) ==
    [id |-> id, state |-> state, port |-> port,
     node |-> [id |-> "node1", name |-> "web1", ipAddress |-> "10.0.0.2"]]

------------------------------------------------------------
----------------------------------------------------------------------------
(* The server's virtual listeners *)

ListenerId(i) == "vl" \o ToString(i)
ListenerIds == {ListenerId(i) : i \in 1..MaxListeners}

\* the listener the server creates for an answered createVirtualListener
\* request: what the request asked for, under the id and address of the answer
StoredListener(req, response) ==
    [id |-> InfoValue(response, "virtualListenerId"),
     name |-> ChildText(req, "name"),
     listenerIpAddress |-> InfoValue(response, "listenerIpAddress"),
     port |-> IF HasChild(req, "port") THEN ChildText(req, "port") ELSE PyNone,
     pool |-> IF HasChild(req, "poolId") THEN ChildText(req, "poolId") ELSE None,
     networkDomainId |-> ChildText(req, "networkDomainId")]

\* the <virtualListener> element the server answers a GET with, the listener
\* being in vendor state `state` at that time
ElementOf(l, state) ==
    [id |-> l.id, name |-> l.name, state |-> state,
     listenerIpAddress |-> l.listenerIpAddress, port |-> l.port, pool |-> l.pool,
     networkDomainId |-> l.networkDomainId]

\* the id the server gives its next listener, None when it can hold no more
FreeListenerId ==
    LET free == {i \in 1..MaxListeners : \A l \in listeners : l.id # ListenerId(i)}
    IN  IF free = {} THEN None
        ELSE ListenerId(CHOOSE i \in free : \A j \in free : i <= j)

\* the server's listeners in the order of their ids
ListenersInOrder ==
    LET held == {i \in 1..MaxListeners : \E l \in listeners : l.id = ListenerId(i)}
        nth(k) == CHOOSE i \in held : Cardinality({j \in held : j < i}) = k - 1
    IN  [k \in 1..Cardinality(held) |->
            CHOOSE l \in listeners : l.id = ListenerId(nth(k))]

\* the server after a call: it holds a new listener for every answered
\* createVirtualListener request
AfterCreate(out, srv) ==
    LET made == {k \in DOMAIN out.reqs :
                    /\ out.reqs[k].action = "createVirtualListener"
                    /\ ~request_with_orgId_api_2(srv, k, out.reqs[k]).fault}
    IN  listeners \cup
        {StoredListener(out.reqs[k], request_with_orgId_api_2(srv, k, out.reqs[k])) :
            k \in made}

----------------------------------------------------------------------------
(* The state machine: one action per call *)

\* no call is in progress and the caller has taken the result of the last one
NoCall == [op |-> "none", args |-> <<>>, reqs |-> <<>>, ret |-> Return(None)]

\* the call that just completed
Done(op, args, out) ==
    call' = [op |-> op, args |-> args, reqs |-> out.reqs, ret |-> out.ret]

\* the driver right after construction, and a server without listeners
Init ==
    /\ network_domain_id \in Domains
    /\ call = NoCall
    /\ lb = NoneObject
    /\ listeners = {}

\* the caller takes the result of the call and goes on
Continue ==
    /\ call.op # NoCall.op
    /\ call' = NoCall
    /\ UNCHANGED <<network_domain_id, lb, listeners>>

CreateBalancer ==
    /\ call.op = NoCall.op
    /\ \E listener_port \in {PyNone, PyInt(80), PyInt(8080)},
          port \in {PyNone, PyInt(8080)},
          protocol \in {None, "tcp"}, algorithm \in {None, "Algorithm.OBSERVED_NODE"},
          members \in MembersArgs, optimization_profile \in {None, "TCP"} :
        LET name == <<"m", "y", " ", "l", "b">>
            run(srv) == create_balancer(network_domain_id, name, listener_port, port,
                            protocol, algorithm, members, optimization_profile, None, srv)
            n == Len(run(Creates(0, None)).reqs)
        IN  \E f \in 0..n :
                \* a server that can hold no more listeners fails the request for one
                /\ (f = 0 /\ run(Creates(0, None)).ret.kind = "return")
                        => FreeListenerId # None
                /\ LET srv == Creates(f, FreeListenerId)
                       out == run(srv)
                   IN  /\ Done("create_balancer",
                               [name |-> name, listener_port |-> listener_port,
                                port |-> port, protocol |-> protocol,
                                algorithm |-> algorithm, members |-> members,
                                optimization_profile |-> optimization_profile,
                                ex_listener_ip_address |-> None, srv |-> srv,
                                network_domain_id |-> network_domain_id],
                               out)
                       /\ listeners' = AfterCreate(out, srv)
                       /\ lb' = IF out.ret.kind = "return" THEN out.ret.value ELSE lb
                       /\ UNCHANGED network_domain_id

ExCreateVirtualListener ==
    /\ call.op = NoCall.op
    /\ \E port \in ListenerPorts, protocol \in {"TCP", "UDP", "HTTP"},
          optimization_profile \in {None, "TCP"}, f \in {0, 1} :
        LET name == <<"m", "y", " ", "l", "b">>
            srv == Creates(f, FreeListenerId)
            out == ex_create_virtual_listener(network_domain_id, name, name, port,
                        APool(None),
                        protocol, optimization_profile, None, srv, 1)
        IN  /\ (f = 0 /\ out.ret.kind = "return") => FreeListenerId # None
            /\ Done("ex_create_virtual_listener",
                    [port |-> port, protocol |-> protocol,
                     optimization_profile |-> optimization_profile, srv |-> srv],
                    out)
            /\ listeners' = AfterCreate(out, srv)
            /\ UNCHANGED <<network_domain_id, lb>>

GetBalancer ==
    /\ call.op = NoCall.op
    /\ \E id \in ListenerIds, state \in VendorStates, f \in {0, 1} :
        LET held == {l \in listeners : l.id = id}
            \* the server answers for a listener it holds
            srv == IF held = {} \/ f = 1 THEN Fails ELSE AnswersWith("OK")
            bal == IF held = {} THEN NoneObject
                   ELSE ElementOf(CHOOSE l \in held : TRUE, state)
        IN  /\ held = {} => (f = 1 /\ state = None)
            /\ f = 1 => state = None
            /\ Done("get_balancer", [balancer_id |-> id, srv |-> srv, object |-> bal],
                    get_balancer(id, srv, bal))
            /\ UNCHANGED <<network_domain_id, lb, listeners>>

ListBalancers ==
    /\ call.op = NoCall.op
    /\ \E states \in [1..Cardinality(listeners) -> ListingStates], srv \in OneFetch :
        LET object == [i \in DOMAIN states |-> ElementOf(ListenersInOrder[i], states[i])]
        IN  /\ srv = Fails => \A i \in DOMAIN states : states[i] = None
            /\ Done("list_balancers", [srv |-> srv, object |-> object],
                    list_balancers(srv, object))
            /\ UNCHANGED <<network_domain_id, lb, listeners>>

DestroyBalancer ==
    /\ call.op = NoCall.op
    /\ \E id \in ListenerIds, srv \in OneAnswer :
        LET out == destroy_balancer(ABalancer(id), srv)
        IN  /\ Done("destroy_balancer", [id |-> id, srv |-> srv], out)
            \* the server deletes the listener when it answers with success
            /\ listeners' = IF srv.failAt = 0 /\ srv.codes[1] \in {"OK", "IN_PROGRESS"}
                            THEN {l \in listeners : l.id # id} ELSE listeners
            \* and the caller lets go of a balancer it has destroyed
            /\ lb' = IF /\ srv.failAt = 0 /\ srv.codes[1] \in {"OK", "IN_PROGRESS"}
                        /\ ~IsNone(lb) /\ lb.id = id
                     THEN NoneObject ELSE lb
            /\ UNCHANGED network_domain_id

BalancerDetachMember ==
    /\ call.op = NoCall.op
    /\ \E id \in {"pm1", "pm2"}, srv \in OneAnswer :
        /\ Done("balancer_detach_member", [id |-> id, srv |-> srv],
                balancer_detach_member(ABalancer("vl1"), APoolMember(id, "node1"), srv))
        /\ UNCHANGED <<network_domain_id, lb, listeners>>

ExDestroyPool ==
    /\ call.op = NoCall.op
    /\ \E hm \in {None, "hm1"}, srv \in OneAnswer :
        /\ Done("ex_destroy_pool", [id |-> APool(hm).id, srv |-> srv],
                ex_destroy_pool(APool(hm), srv))
        /\ UNCHANGED <<network_domain_id, lb, listeners>>

ExDestroyNode ==
    /\ call.op = NoCall.op
    /\ \E id \in {"node1", "node2"}, srv \in OneAnswer :
        /\ Done("ex_destroy_node", [id |-> id, srv |-> srv], ex_destroy_node(id, srv, 1))
        /\ UNCHANGED <<network_domain_id, lb, listeners>>

ExDestroyPoolMember ==
    /\ call.op = NoCall.op
    /\ \E node_id \in {None, "node1"}, destroy_node \in BOOLEAN, srv \in TwoAnswers :
        /\ Done("ex_destroy_pool_member",
                [id |-> "pm1", node_id |-> node_id, destroy_node |-> destroy_node,
                 srv |-> srv],
                ex_destroy_pool_member(APoolMember("pm1", node_id), destroy_node, srv))
        /\ UNCHANGED <<network_domain_id, lb, listeners>>

ExCreatePool ==
    /\ call.op = NoCall.op
    /\ \E nd \in Domains, name \in Names, f \in {0, 1} :
        /\ Done("ex_create_pool", [network_domain_id |-> nd, name |-> name,
                                   srv |-> Creates(f, None)],
                ex_create_pool(nd, name, "ROUND_ROBIN", None, Creates(f, None), 1))
        /\ UNCHANGED <<network_domain_id, lb, listeners>>

ExCreateNode ==
    /\ call.op = NoCall.op
    /\ \E nd \in Domains, ex_description \in {None, ""}, f \in {0, 1} :
        /\ Done("ex_create_node", [network_domain_id |-> nd,
                                   ex_description |-> ex_description,
                                   srv |-> Creates(f, None)],
                ex_create_node(nd, "web1", "10.0.0.2", ex_description, Creates(f, None), 1))
        /\ UNCHANGED <<network_domain_id, lb, listeners>>

ExCreatePoolMember ==
    /\ call.op = NoCall.op
    /\ \E port \in {PyNone, PyInt(8080)}, f \in {0, 1} :
        /\ Done("ex_create_pool_member", [port |-> port, srv |-> Creates(f, None)],
                ex_create_pool_member(APool(None), AVIPNode("node1"), port,
                                      Creates(f, None), 1))
        /\ UNCHANGED <<network_domain_id, lb, listeners>>

ExSetNodeState ==
    /\ call.op = NoCall.op
    /\ \E id \in {"node1", "node2"}, enabled \in BOOLEAN, srv \in OneFetch :
        /\ Done("ex_set_node_state", [node |-> AVIPNode(id), enabled |-> enabled,
                                      srv |-> srv],
                ex_set_node_state(AVIPNode(id), enabled, srv))
        /\ UNCHANGED <<network_domain_id, lb, listeners>>

ExUpdateNode ==
    /\ call.op = NoCall.op
    /\ \E id \in {"node1", "node2"}, srv \in OneFetch :
        /\ Done("ex_update_node", [node |-> AVIPNode(id), srv |-> srv],
                ex_update_node(AVIPNode(id), srv))
        /\ UNCHANGED <<network_domain_id, lb, listeners>>

ExUpdatePool ==
    /\ call.op = NoCall.op
    /\ \E hm \in {None, "hm1"}, srv \in OneAnswer :
        /\ Done("ex_update_pool", [pool |-> APool(hm), srv |-> srv],
                ex_update_pool(APool(hm), srv))
        /\ UNCHANGED <<network_domain_id, lb, listeners>>

ExGetNode ==
    /\ call.op = NoCall.op
    /\ \E state \in VendorStates, ip4 \in {None, "10.0.0.2"}, srv \in OneFetch :
        /\ Done("ex_get_node", [node_id |-> "node1", srv |-> srv,
                                object |-> NodeElement("node1", state, ip4)],
                ex_get_node("node1", srv, NodeElement("node1", state, ip4)))
        /\ UNCHANGED <<network_domain_id, lb, listeners>>

ExGetNodes ==
    /\ call.op = NoCall.op
    /\ \E states \in SeqsUpTo(ListingStates, MaxListing), srv \in OneFetch :
        LET object == [i \in DOMAIN states |->
                          NodeElement("node" \o ToString(i), states[i], "10.0.0.2")]
        IN  /\ Done("ex_get_nodes", [srv |-> srv, object |-> object],
                    ex_get_nodes(srv, object))
            /\ UNCHANGED <<network_domain_id, lb, listeners>>

ExGetPool ==
    /\ call.op = NoCall.op
    /\ \E state \in VendorStates, srv \in OneFetch :
        /\ Done("ex_get_pool", [pool_id |-> "pool1", srv |-> srv,
                                object |-> PoolElement("pool1", state)],
                ex_get_pool("pool1", srv, PoolElement("pool1", state), 1))
        /\ UNCHANGED <<network_domain_id, lb, listeners>>

ExGetPools ==
    /\ call.op = NoCall.op
    /\ \E states \in SeqsUpTo(ListingStates, MaxListing), srv \in OneFetch :
        LET object == [i \in DOMAIN states |->
                          PoolElement("pool" \o ToString(i), states[i])]
        IN  /\ Done("ex_get_pools", [srv |-> srv, object |-> object],
                    ex_get_pools(srv, object))
            /\ UNCHANGED <<network_domain_id, lb, listeners>>

ExGetPoolMember ==
    /\ call.op = NoCall.op
    /\ \E state \in VendorStates, port \in {PyNone, PyText(8080)}, srv \in OneFetch :
        /\ Done("ex_get_pool_member", [pool_member_id |-> "pm1", srv |-> srv,
                                       object |-> MemberElement("pm1", state, port)],
                ex_get_pool_member("pm1", srv, MemberElement("pm1", state, port)))
        /\ UNCHANGED <<network_domain_id, lb, listeners>>

ExGetPoolMembers ==
    /\ call.op = NoCall.op
    /\ \E states \in SeqsUpTo(ListingStates, MaxListing), srv \in OneFetch :
        LET object == [i \in DOMAIN states |->
                          MemberElement("pm" \o ToString(i), states[i], PyText(8080))]
        IN  /\ Done("ex_get_pool_members", [pool_id |-> "pool1", srv |-> srv,
                                            object |-> object],
                    ex_get_pool_members("pool1", srv, object))
            /\ UNCHANGED <<network_domain_id, lb, listeners>>

\* the regions and hosts drivers are constructed with: no region, known
\* regions and a region that is not a key of API_ENDPOINTS
Regions == {None, DEFAULT_REGION, "eu", "moon"}
Hosts == {None, "lb.example.com"}

\* NttCisLBDriver(key, network_domain_id, host=host, region=region): one more
\* driver object is constructed; the calls go on through the first
NttCisLBDriver ==
    /\ call.op = NoCall.op
    /\ \E nd \in Domains, host \in Hosts, region \in Regions :
        /\ Done("__init__", [network_domain_id |-> nd, host |-> host, region |-> region],
                __init__(nd, host, region))
        /\ UNCHANGED <<network_domain_id, lb, listeners>>

\* a server for balancer_attach_member: it fails one of the three requests
\* or none, and its answer to createNode names the new node or does not
AttachServers ==
    {Creates(f, None) : f \in 0..3} \cup {WithoutNode(Creates(0, None))}

BalancerAttachMember ==
    /\ call.op = NoCall.op
    /\ \E b \in {ABalancer("vl1")}, member \in {AMember, [AMember EXCEPT !.port = PyNone]},
          srv \in AttachServers, state \in {"NORMAL", "PENDING_CHANGE"} :
        /\ Done("balancer_attach_member",
                [balancer |-> b, member |-> member, srv |-> srv,
                 object |-> PoolElement(b.extra.pool_id, state)],
                balancer_attach_member(b, member, srv, PoolElement(b.extra.pool_id, state)))
        /\ UNCHANGED <<network_domain_id, lb, listeners>>

\* the desired state: a str, or a list of them
DesiredStates ==
    {[cls |-> "str", value |-> "NORMAL"],
     [cls |-> "list", items |-> <<"NORMAL", "PENDING_CHANGE">>]}

Timeouts == (MaxTimeout - 1)..MaxTimeout
PollIntervals == {1, 2}

\* a func whose result is PENDING_ADD until its readyAt-th call and NORMAL from
\* then on (readyAt = 0: never NORMAL)
PolledFunc(readyAt) ==
    [i \in 1..(MaxTimeout + 1) |->
        [cls |-> "NttCisVIPNode", id |-> "node1",
         status |-> IF readyAt # 0 /\ i >= readyAt THEN "NORMAL" ELSE "PENDING_ADD"]]

ExWaitForState ==
    /\ call.op = NoCall.op
    /\ \E state \in DesiredStates, poll_interval \in PollIntervals, timeout \in Timeouts,
          readyAt \in 0..(MaxTimeout + 1) :
        LET out == ex_wait_for_state(state, PolledFunc(readyAt), poll_interval, timeout)
        IN  /\ call' = [op |-> "ex_wait_for_state",
                        args |-> [state |-> state, readyAt |-> readyAt,
                                  poll_interval |-> poll_interval, timeout |-> timeout],
                        reqs |-> <<>>, ret |-> out.ret,
                        calls |-> out.calls, slept |-> out.slept]
            /\ UNCHANGED <<network_domain_id, lb, listeners>>

\* one round of the loop of test_remove_admin_password
RemoveAdminPassword ==
    /\ call.op = NoCall.op
    /\ \E row \in RemoveAdminPasswordCases :
        /\ Done("_remove_admin_password", row,
                Outcome(<<>>, Return(_remove_admin_password(GuestCustomizationSection(row)))))
        /\ UNCHANGED <<network_domain_id, lb, listeners>>

\* one round of the loop of test_change_vm_script_text_and_file_logic
ChangeVmScript ==
    /\ call.op = NoCall.op
    /\ \E row \in ChangeVmScriptCases :
        LET out == _change_vm_script(row.vm_script_file, row.vm_script_text,
                                     row.open_succeeds)
        IN  /\ call' = [op |-> "_change_vm_script", args |-> row, reqs |-> <<>>,
                        ret |-> out.ret, open_call_count |-> out.open_call_count]
            /\ UNCHANGED <<network_domain_id, lb, listeners>>

\* one round of the loop of test_lease_get_time_deployed
LeaseGetDeploymentTime ==
    /\ call.op = NoCall.op
    /\ \E row \in LeaseCases :
        LET lease == Lease(row.deployment_lease, row.storage_lease,
                           row.deployment_lease_exp, row.storage_lease_exp)
        IN  /\ Done("get_deployment_time", row, Outcome(<<>>, get_deployment_time(lease)))
            /\ UNCHANGED <<network_domain_id, lb, listeners>>

\* test_ex_undeploy, test_ex_undeploy_with_error, test_ex_undeploy_power_off
\* (shutdown=False), and the same vApps with the other value of shutdown
ExUndeployNode ==
    /\ call.op = NoCall.op
    /\ \E vapp \in {"undeployTest", "undeployErrorTest", "undeployPowerOffTest"},
          shutdown \in BOOLEAN :
        /\ Done("ex_undeploy_node", [node |-> vapp, shutdown |-> shutdown],
                ex_undeploy_node(vapp, shutdown))
        /\ UNCHANGED <<network_domain_id, lb, listeners>>

ExSetVmCpu ==
    /\ call.op = NoCall.op
    /\ \E vm_cpu \in VmCpuValues :
        /\ Done("ex_set_vm_cpu", [value |-> vm_cpu], ex_set_vm_cpu("dummy", vm_cpu))
        /\ UNCHANGED <<network_domain_id, lb, listeners>>

ExSetVmMemory ==
    /\ call.op = NoCall.op
    /\ \E vm_memory \in VmMemoryValues :
        /\ Done("ex_set_vm_memory", [value |-> vm_memory],
                ex_set_vm_memory("dummy", vm_memory))
        /\ UNCHANGED <<network_domain_id, lb, listeners>>

ExAddVmDisk ==
    /\ call.op = NoCall.op
    /\ \E vm_disk_size \in VmDiskSizes :
        /\ Done("ex_add_vm_disk", [value |-> vm_disk_size],
                ex_add_vm_disk("dummy", vm_disk_size))
        /\ UNCHANGED <<network_domain_id, lb, listeners>>

CreateNode ==
    /\ call.op = NoCall.op
    /\ \E ex_vm_memory \in InvalidVmMemoryValues \cup ValidVmMemoryValues :
        /\ Done("create_node", [value |-> ex_vm_memory], create_node(ex_vm_memory))
        /\ UNCHANGED <<network_domain_id, lb, listeners>>

\* the vDCs the mocked server can hold: brokenVdc, and a vDC with up to
\* MaxListing vApps of any kind
SomeVdcs ==
    {brokenVdc} \cup {Vdc("/api/vdc/3d9ae28c", vapps) : vapps \in SeqsUpTo(VApps, MaxListing)}

\* test_ex_list_nodes and test_ex_list_nodes__masked_exception: ex_list_nodes
\* for the driver's own vDC (no argument), for one Vdc, and for a list of one
ExListNodes ==
    /\ call.op = NoCall.op
    /\ \E own \in SomeVdcs, given \in SomeVdcs, how \in {"default", "one", "list"} :
        LET vdcs == CASE how = "default" -> NoneObject
                      [] how = "one" -> given
                      [] how = "list" -> [cls |-> "list", items |-> <<given>>]
        IN  /\ how = "default" => given = brokenVdc
            /\ how # "default" => own = Vdc("/api/vdc/3d9ae28c", <<"vapp-a">>)
            /\ Done("ex_list_nodes", [self_vdcs |-> <<own>>, vdcs |-> vdcs, how |-> how,
                                       listed |-> IF how = "default" THEN own ELSE given],
                    ex_list_nodes(<<own>>, vdcs))
            /\ UNCHANGED <<network_domain_id, lb, listeners>>

Next ==
    \/ Continue
    \/ ExListNodes
    \/ ExSetVmCpu
    \/ ExSetVmMemory
    \/ ExAddVmDisk
    \/ CreateNode
    \/ ExUndeployNode
    \/ LeaseGetDeploymentTime
    \/ ChangeVmScript
    \/ RemoveAdminPassword
    \/ ExWaitForState
    \/ BalancerAttachMember
    \/ NttCisLBDriver
    \/ CreateBalancer
    \/ ExCreateVirtualListener
    \/ GetBalancer
    \/ ListBalancers
    \/ DestroyBalancer
    \/ BalancerDetachMember
    \/ ExDestroyPool
    \/ ExDestroyNode
    \/ ExDestroyPoolMember
    \/ ExCreatePool
    \/ ExCreateNode
    \/ ExCreatePoolMember
    \/ ExSetNodeState
    \/ ExUpdateNode
    \/ ExUpdatePool
    \/ ExGetNode
    \/ ExGetNodes
    \/ ExGetPool
    \/ ExGetPools
    \/ ExGetPoolMember
    \/ ExGetPoolMembers

Spec == Init /\ [][Next]_vars

----------------------------------------------------------------------------
(* Properties *)

Returned == call.ret.kind = "return"

\* the server's answer to the k-th request of the call that just completed
AnswerTo(k) == request_with_orgId_api_2(call.args.srv, k, call.reqs[k])

\* the server answered every request of the call that just completed
Answered == call.args.srv.failAt = 0

\* the requests create_balancer is to send for members[i..]: whose turn it is
\* and what is sent for it
RECURSIVE ExpectedMemberSteps(_, _)
ExpectedMemberSteps(members, i) ==
    IF i > Len(members) THEN <<>>
    ELSE (IF members[i].cls = "Member" THEN <<>>
          ELSE << [action |-> "createNode", i |-> i] >>)
         \o << [action |-> "addPoolMember", i |-> i] >>
         \o ExpectedMemberSteps(members, i + 1)

\* C1: a create_balancer call that returns has sent one createPool, then for
\* each element of members in list order one addPoolMember, preceded by one
\* createNode for that element exactly when it is not a Member, then one
\* createVirtualListener; every addPoolMember and the createVirtualListener
\* carry the pool id the server returned for createPool.
C1_CreateBalancerRequestOrder ==
    (call.op = "create_balancer" /\ Returned) =>
        LET items == IF IsNone(call.args.members) THEN <<>> ELSE call.args.members.items
            steps == ExpectedMemberSteps(items, 1)
            reqs == call.reqs
            last == Len(reqs)
            poolId == InfoValue(AnswerTo(1), "poolId")
        IN  /\ last = Len(steps) + 2
            /\ \A k \in DOMAIN reqs : reqs[k].method = "POST"
            /\ reqs[1].action = "createPool"
            /\ reqs[last].action = "createVirtualListener"
            /\ HasChild(reqs[last], "poolId")
            /\ ChildText(reqs[last], "poolId") = poolId
            /\ \A j \in DOMAIN steps :
                LET r == reqs[j + 1]
                    m == items[steps[j].i]
                IN  /\ r.action = steps[j].action
                    /\ r.action = "createNode" =>
                        /\ ChildText(r, "ipv4Address") = m.private_ips[1]
                        /\ ChildText(r, "name") = m.name
                    /\ r.action = "addPoolMember" =>
                        /\ ChildText(r, "poolId") = poolId
                        /\ ChildText(r, "nodeId") =
                              IF m.cls = "Member" THEN m.id
                              ELSE InfoValue(AnswerTo(j), "nodeId")

\* a create_balancer call has returned for a node followed by a Member
C1_Witness ==
    /\ call.op = "create_balancer"
    /\ Returned
    /\ ~IsNone(call.args.members)
    /\ call.args.members.items = <<ANode, AMember>>
    /\ Len(call.reqs) = 5

\* the request each of the four destroy operations is to send
DestroyAction ==
    [destroy_balancer |-> "deleteVirtualListener",
     balancer_detach_member |-> "removePoolMember",
     ex_destroy_pool |-> "deletePool",
     ex_destroy_node |-> "deleteNode"]

\* C2: destroy_balancer, balancer_detach_member, ex_destroy_pool and
\* ex_destroy_node each send exactly one POST carrying the id of the target
\* resource, and when the server answers they return True if the responseCode
\* is IN_PROGRESS or OK and False for every other or a missing responseCode.
C2_DestroyReturnsSuccessOfResponseCode ==
    call.op \in DOMAIN DestroyAction =>
        /\ Len(call.reqs) = 1
        /\ call.reqs[1].method = "POST"
        /\ call.reqs[1].action = DestroyAction[call.op]
        /\ call.reqs[1].id = call.args.id
        /\ Answered =>
            /\ Returned
            /\ call.ret.value = (call.args.srv.codes[1] \in {"IN_PROGRESS", "OK"})

\* a destroy operation has returned False for an answer without responseCode,
\* and another True for IN_PROGRESS
C2_Witness ==
    /\ call.op \in DOMAIN DestroyAction
    /\ Answered
    /\ Returned
    /\ \/ call.args.srv.codes[1] = None /\ call.ret.value = FALSE
       \/ call.args.srv.codes[1] = "IN_PROGRESS" /\ call.ret.value = TRUE

\* C3: whenever the server answers the removePoolMember request of
\* ex_destroy_pool_member with a responseCode other than IN_PROGRESS or OK,
\* the call returns False, whatever destroy_node and member.node_id are
\* (stated for the calls in which the server answers every request).
C3_DestroyPoolMemberReportsFailure ==
    (/\ call.op = "ex_destroy_pool_member"
     /\ Answered
     /\ call.args.srv.codes[1] \notin {"IN_PROGRESS", "OK"})
        => (Returned /\ call.ret.value = FALSE)

\* the statuses of the DTOs a fetch operation returned, with the vendor state
\* of the element each was parsed from
FetchedStatuses ==
    CASE call.op = "get_balancer" ->
            {<<call.ret.value.state, call.args.object.state>>}
      [] call.op = "list_balancers" ->
            {<<call.ret.value[i].state, call.args.object[i].state>> :
                i \in DOMAIN call.ret.value}
      [] call.op \in {"ex_get_node", "ex_get_pool", "ex_get_pool_member"} ->
            {<<call.ret.value.status, call.args.object.state>>}
      [] call.op \in {"ex_get_nodes", "ex_get_pools", "ex_get_pool_members"} ->
            {<<call.ret.value[i].status, call.args.object[i].state>> :
                i \in DOMAIN call.ret.value}
      [] OTHER -> {}

FetchOps ==
    {"get_balancer", "list_balancers", "ex_get_node", "ex_get_nodes", "ex_get_pool",
     "ex_get_pools", "ex_get_pool_member", "ex_get_pool_members"}

\* C4: every DTO a fetch operation returns has a status that is a member of
\* the State enum, the one the lookup table gives for the vendor state, never
\* the raw vendor text.
C4_FetchedStatusIsState ==
    (call.op \in FetchOps /\ Returned) =>
        \A p \in FetchedStatuses :
            /\ p[1] \in StateEnum
            /\ p[1] = DictGet(_VALUE_TO_STATE_MAP, p[2], "State.UNKNOWN")

\* the state the documentation of the vendor states asks for
ExpectedState(vendor) ==
    CASE vendor = "NORMAL" -> "State.RUNNING"
      [] vendor \in {"PENDING_ADD", "PENDING_CHANGE", "PENDING_DELETE"} -> "State.PENDING"
      [] vendor \in {"FAILED_ADD", "FAILED_CHANGE", "FAILED_DELETE", "REQUIRES_SUPPORT"} ->
            "State.ERROR"
      [] OTHER -> "State.UNKNOWN"

\* C5: a load balancer or VIP node parsed from an answer is RUNNING for
\* NORMAL, PENDING for PENDING_ADD, PENDING_CHANGE and PENDING_DELETE, ERROR
\* for FAILED_ADD, FAILED_CHANGE, FAILED_DELETE and REQUIRES_SUPPORT, and
\* UNKNOWN for every other text and for a missing state; the fetch returns
\* whenever the server answers.
C5_BalancerAndNodeStates ==
    call.op \in {"get_balancer", "list_balancers", "ex_get_node", "ex_get_nodes"} =>
        /\ Answered => Returned
        /\ Returned => \A p \in FetchedStatuses : p[1] = ExpectedState(p[2])

\* balancers and nodes have been parsed from an unknown text, from a missing
\* state and from a known one
C5_Witness ==
    /\ call.op \in {"list_balancers", "ex_get_nodes"}
    /\ Returned
    /\ \E p \in FetchedStatuses : p[2] = None /\ p[1] = "State.UNKNOWN"
    /\ \E p \in FetchedStatuses : p[2] = "FAILED_DELETE" /\ p[1] = "State.ERROR"

\* C6: the LoadBalancer create_balancer returned agrees with the one
\* get_balancer returns for the same id while the server holds the listener
\* unchanged (and reports it NORMAL) on id, name, ip, port, state,
\* extra['pool_id'] and extra['network_domain_id'].
C6_CreatedBalancerMirrorsServer ==
    (/\ call.op = "get_balancer"
     /\ Returned
     /\ ~IsNone(lb)
     /\ call.args.balancer_id = lb.id
     /\ call.args.object.state = "NORMAL")
        => LET got == call.ret.value
           IN  /\ got.id = lb.id
               /\ got.name = lb.name
               /\ got.ip = lb.ip
               /\ got.port = lb.port
               /\ got.state = lb.state
               /\ got.extra.pool_id = lb.extra.pool_id
               /\ got.extra.network_domain_id = lb.extra.network_domain_id

\* C7: ex_create_virtual_listener raises ValueError exactly when the derived
\* listener type is STANDARD, the protocol is TCP and optimization_profile is
\* None; in every other case it sends the createVirtualListener request.
C7_ValueErrorOnlyForStandardTcp ==
    call.op = "ex_create_virtual_listener" =>
        LET standard == call.args.port \notin {PyInt(80), PyInt(443)}
            required == /\ standard
                        /\ call.args.protocol = "TCP"
                        /\ call.args.optimization_profile = None
            valueError == call.ret.kind = "raise" /\ call.ret.value = "ValueError"
        IN  /\ valueError <=> required
            /\ ~required =>
                /\ Len(call.reqs) = 1
                /\ call.reqs[1].action = "createVirtualListener"

\* C8: the <name> of the createPool request of ex_create_pool and the name of
\* the returned NttCisPool are the name argument with every space replaced by
\* an underscore.
C8_PoolNameHasNoSpace ==
    call.op = "ex_create_pool" =>
        /\ ChildText(call.reqs[1], "name") = replace(call.args.name, " ", "_")
        /\ \A i \in DOMAIN ChildText(call.reqs[1], "name") :
                ChildText(call.reqs[1], "name")[i] # " "
        /\ Returned => call.ret.value.name = replace(call.args.name, " ", "_")

\* C9: the editNode request of ex_set_node_state identifies the node by its
\* id and carries status ENABLED when enabled is True and DISABLED otherwise,
\* and the call returns the node it was given.
C9_SetNodeStateNamesTheNode ==
    call.op = "ex_set_node_state" =>
        /\ Len(call.reqs) = 1
        /\ call.reqs[1].action = "editNode"
        /\ call.reqs[1].id = call.args.node.id
        /\ ChildText(call.reqs[1], "status") =
                IF call.args.enabled THEN "ENABLED" ELSE "DISABLED"
        /\ Answered => (Returned /\ call.ret.value = call.args.node)

\* C10: the editPool request of ex_update_pool carries the pool's id and no
\* child element other than loadBalanceMethod, serviceDownAction and
\* slowRampTime, and the call returns True if and only if the responseCode is
\* IN_PROGRESS or OK.
C10_UpdatePoolSendsOnlyThreeFields ==
    call.op = "ex_update_pool" =>
        /\ Len(call.reqs) = 1
        /\ call.reqs[1].action = "editPool"
        /\ call.reqs[1].id = call.args.pool.id
        /\ \A i \in DOMAIN call.reqs[1].children :
                Tags(call.reqs[1])[i] \in
                    {"loadBalanceMethod", "serviceDownAction", "slowRampTime"}
        /\ Answered =>
            /\ Returned
            /\ call.ret.value = (call.args.srv.codes[1] \in {"IN_PROGRESS", "OK"})

\* C11: constructing the driver raises ValueError exactly when region is not
\* a key of API_ENDPOINTS and no host is given, and with a host construction
\* succeeds for every region (known, unknown or None).
C11_ConstructorRejectsOnlyUnknownRegionWithoutHost ==
    call.op = "__init__" =>
        /\ (call.ret.kind = "raise" /\ call.ret.value = "ValueError")
                <=> (call.args.region \notin DOMAIN API_ENDPOINTS /\ call.args.host = None)
        /\ call.args.host # None => Returned

\* the answer to createNode of the call that just completed named a node
NodeCreated ==
    /\ call.args.srv.failAt # 1
    /\ InfoValue(AnswerTo(1), "nodeId") # None

\* C12: balancer_attach_member sends createNode with the member's ip and the
\* balancer's network domain, then GETs the balancer's pool, then sends
\* addPoolMember with that pool's id, the new node's id and the member's
\* port; it returns the member it was given with id set to the poolMemberId
\* the server reported; and it sends no addPoolMember when the node creation
\* did not produce a node.
C12_AttachMemberCreatesNodeThenJoinsPool ==
    call.op = "balancer_attach_member" =>
        LET reqs == call.reqs
            b == call.args.balancer
            m == call.args.member
        IN  /\ Len(reqs) >= 1
            /\ reqs[1].action = "createNode"
            /\ ChildText(reqs[1], "ipv4Address") = m.ip
            /\ ChildText(reqs[1], "networkDomainId") = b.extra.network_domain_id
            /\ Len(reqs) >= 2 =>
                    /\ reqs[2] = Get("pool", b.extra.pool_id)
            /\ Len(reqs) >= 3 =>
                    /\ Len(reqs) = 3
                    /\ reqs[3].action = "addPoolMember"
                    /\ ChildText(reqs[3], "poolId") = call.args.object.id
                    /\ ChildText(reqs[3], "nodeId") = InfoValue(AnswerTo(1), "nodeId")
                    /\ IF m.port = PyNone THEN ~HasChild(reqs[3], "port")
                       ELSE ChildText(reqs[3], "port") = str(m.port)
            /\ (Returned /\ Answered /\ NodeCreated) =>
                    /\ Len(reqs) = 3
                    /\ call.ret.value =
                            [m EXCEPT !.id = InfoValue(AnswerTo(3), "poolMemberId")]
            /\ ~NodeCreated => \A k \in DOMAIN reqs : reqs[k].action # "addPoolMember"

\* C13: create_balancer called without protocol sends protocol 'http' in
\* createVirtualListener, and called without algorithm sends loadBalanceMethod
\* 'ROUND_ROBIN' in createPool; a protocol or an algorithm that is given is
\* the one sent.
C13_CreateBalancerDefaults ==
    (call.op = "create_balancer" /\ Len(call.reqs) >= 1) =>
        LET first == call.reqs[1]
            last == call.reqs[Len(call.reqs)]
            sent == ChildText(first, "loadBalanceMethod")
        IN  /\ first.action = "createPool"
            /\ call.args.algorithm = None => sent = "ROUND_ROBIN"
            /\ call.args.algorithm # None =>
                    /\ sent \in DOMAIN _VALUE_TO_ALGORITHM_MAP
                    /\ _VALUE_TO_ALGORITHM_MAP[sent] = call.args.algorithm
            /\ last.action = "createVirtualListener" =>
                    ChildText(last, "protocol") =
                        IF call.args.protocol = None THEN "http" ELSE call.args.protocol

\* create_balancer has returned for a call without protocol and algorithm
C13_Witness ==
    /\ call.op = "create_balancer"
    /\ Returned
    /\ call.args.protocol = None
    /\ call.args.algorithm = None
    /\ call.reqs[Len(call.reqs)].action = "createVirtualListener"

C15_AdminPasswordKeptOnlyWhenEnabledAndNotAuto ==
    /\ Cardinality(RemoveAdminPasswordCases) = 18
    /\ Cardinality({row \in RemoveAdminPasswordCases : row.pass_exists}) = 1
    /\ Cardinality({<<row.enabled, row.auto, row.passwd>> : row \in RemoveAdminPasswordCases}) = 18
    /\ call.op = "_remove_admin_password" =>
            LET section == call.ret.value
                admin_pass_element == find(section, fixxpath(section, "AdminPassword"))
            IN  /\ (admin_pass_element # 0)
                        <=> /\ call.args.enabled = "true"
                            /\ call.args.auto = "false"
                            /\ call.args.passwd # ""
                /\ (admin_pass_element # 0) <=> call.args.pass_exists

\* the password was kept, and the element before it is still there
C15_Witness ==
    /\ call.op = "_remove_admin_password"
    /\ find(call.ret.value, fixxpath(call.ret.value, "AdminPassword")) = 3

\* the call that just completed went on to look up the VM elements
LookedUpVms == call.ret.kind = "raise" /\ call.ret.value = "CallException"
\* the call that just completed returned without looking up the VM elements
ReturnedEarly == call.ret.kind = "return"

\* C16: _change_vm_script with a vm_script_text never opens the script file
\* and goes on to the VM lookup; with only a vm_script file it opens the file
\* exactly once, and goes on to the VM lookup when the open succeeds and
\* returns early, raising nothing, when it fails; with neither it opens no
\* file and returns early.  These are the expectations of the 8 rows of the
\* test.
C16_ChangeVmScriptTextAndFileLogic ==
    /\ Cardinality(ChangeVmScriptCases) = 8
    /\ call.op = "_change_vm_script" =>
            LET a == call.args
            IN  /\ a.vm_script_text # None =>
                        call.open_call_count = 0 /\ LookedUpVms
                /\ (a.vm_script_text = None /\ a.vm_script_file # None) =>
                        /\ call.open_call_count = 1
                        /\ a.open_succeeds => LookedUpVms
                        /\ ~a.open_succeeds => ReturnedEarly
                /\ (a.vm_script_text = None /\ a.vm_script_file = None) =>
                        call.open_call_count = 0 /\ ReturnedEarly
                /\ call.open_call_count = a.open_call_count
                /\ ReturnedEarly <=> a.returned_early

\* only a file was given and it could not be opened
C16_Witness ==
    /\ call.op = "_change_vm_script"
    /\ call.args.vm_script_file = "file.sh"
    /\ call.args.vm_script_text = None
    /\ ~call.args.open_succeeds
    /\ call.open_call_count = 1
    /\ ReturnedEarly

\* C17: Lease.get_deployment_time returns the expiration less the lease
\* duration, of the deployment pair when both of its fields are set and
\* otherwise of the storage pair when both of its fields are set, and raises
\* 'Cannot get time deployed. Missing complete lease and expiration
\* information.' when neither pair is complete; so the test expects in all
\* 16 combinations of the four fields being set or None.
C17_LeaseDeploymentTime ==
    /\ Cardinality({<<row.deployment_lease, row.storage_lease, row.deployment_lease_exp,
                      row.storage_lease_exp>> : row \in LeaseCases}) = 16
    /\ call.op = "get_deployment_time" =>
            LET a == call.args
                deployment == a.deployment_lease # PyNone /\ ~IsNone(a.deployment_lease_exp)
                storage == a.storage_lease # PyNone /\ ~IsNone(a.storage_lease_exp)
            IN  /\ deployment =>
                        /\ Returned
                        /\ call.ret.value.microsecond = a.deployment_lease_exp.microsecond
                        /\ call.ret.value.seconds + a.deployment_lease[2]
                                = a.deployment_lease_exp.seconds
                /\ (~deployment /\ storage) =>
                        /\ Returned
                        /\ call.ret.value.microsecond = a.storage_lease_exp.microsecond
                        /\ call.ret.value.seconds + a.storage_lease[2]
                                = a.storage_lease_exp.seconds
                /\ (~deployment /\ ~storage) =>
                        /\ call.ret.kind = "raise"
                        /\ call.ret.value = "Cannot get time deployed. Missing complete lease and expiration information."
                /\ a.exception <=> call.ret.kind = "raise"
                /\ ~a.exception => call.ret.value = a.res

\* the time was inferred from the storage pair although a deployment
\* expiration was set
C17_Witness ==
    /\ call.op = "get_deployment_time"
    /\ Returned
    /\ call.args.deployment_lease = PyNone
    /\ ~IsNone(call.args.deployment_lease_exp)
    /\ call.ret.value = datetime(6)

\* the undeploy requests of the call that just completed, in order
UndeployRequests == SelectSeq(call.reqs, LAMBDA r : r.action = "undeploy")

Rejected ==
    /\ call.ret.kind = "raise"
    /\ call.ret.value = "ValueError"
    /\ call.reqs = <<>>

\* the size is text that is a decimal number
Numeric(size) ==
    LET digits == IF size # <<>> /\ Head(size) = "-" THEN Tail(size) ELSE size
    IN  /\ digits # <<>>
        /\ \A k \in DOMAIN digits : Digit(digits[k]) >= 0

\* C19: the resource setters reject invalid values with ValueError before
\* any request is sent: ex_set_vm_cpu 50 and negative counts, ex_set_vm_memory
\* negative values and values that are no multiple of 4, ex_add_vm_disk sizes
\* that are not numeric or negative, create_node the ex_vm_memory values 1, 3
\* and 7 of its test, while 4, 1024 and 4096 are valid.
C19_SettersRejectInvalidValues ==
    /\ InvalidVmMemoryValues = {1, 3, 7}
    /\ call.op = "ex_set_vm_cpu" =>
            ((call.args.value = 50 \/ call.args.value < 0) => Rejected)
    /\ call.op = "ex_set_vm_memory" =>
            ((call.args.value < 0 \/ call.args.value % 4 # 0) => Rejected)
    /\ call.op = "ex_add_vm_disk" =>
            ((~Numeric(call.args.value) \/ Head(call.args.value) = "-") => Rejected)
    /\ call.op = "create_node" =>
            /\ call.args.value \in InvalidVmMemoryValues => Rejected
            /\ call.args.value \in {4, 1024, 4096} => Returned /\ call.reqs # <<>>

\* a negative memory size that is a multiple of 4 was rejected
C19_Witness ==
    /\ call.op = "ex_set_vm_memory"
    /\ call.args.value = -1024
    /\ Rejected

\* the exception is not the access-forbidden error
OtherException(e) ==
    \/ e.cls = "AnotherError"
    \/ e.args[1].minorErrorCode # "ACCESS_TO_RESOURCE_IS_FORBIDDEN"
    \/ Len(e.args[1].tag) < 5
    \/ SubSeq(e.args[1].tag, Len(e.args[1].tag) - 4, Len(e.args[1].tag)) # ErrorTag

----------------------------------------------------------------------------
(* What a call leaves on the server *)

\* the kind of resource each create request makes, and the <info> element of
\* the answer that names it
CreatedKind ==
    [createPool |-> "poolId", createNode |-> "nodeId",
     addPoolMember |-> "poolMemberId", createVirtualListener |-> "virtualListenerId"]

\* the kind of resource each delete or remove request takes away
RemovedKind ==
    [deletePool |-> "poolId", deleteNode |-> "nodeId",
     removePoolMember |-> "poolMemberId", deleteVirtualListener |-> "virtualListenerId"]

\* the resource an answered create request made
CreatedResource(req, response) ==
    [kind |-> CreatedKind[req.action], id |-> InfoValue(response, CreatedKind[req.action])]

\* the resources of a call on the server after the first n requests of the
\* call: an answered create request adds one, an answered delete or remove
\* request takes the one with its id away
RECURSIVE ServerHolds(_, _, _)
ServerHolds(reqs, srv, n) ==
    IF n = 0 THEN {}
    ELSE LET before == ServerHolds(reqs, srv, n - 1)
             req == reqs[n]
             response == request_with_orgId_api_2(srv, n, req)
         IN  IF response.fault THEN before
             ELSE IF req.action \in DOMAIN CreatedKind
             THEN before \cup {CreatedResource(req, response)}
             ELSE IF req.action \in DOMAIN RemovedKind
             THEN before \ {[kind |-> RemovedKind[req.action], id |-> req.id]}
             ELSE before

\* the exceptions a step of create_balancer raises
StepExceptions == {"ValueError", "KeyError", "IndexError", "NttCisAPIException"}

\* C21: create_balancer never issues a delete or remove request: every request
\* of the call is a POST that creates; and when a step of the call raises
\* (the ValueError of ex_create_virtual_listener for a listener port other
\* than 80 and 443 with optimization_profile None included), the call ends
\* with that exception, not with a LoadBalancer, and every pool, node and pool
\* member the earlier steps created is still on the server.
C21_CreateBalancerNeverCleansUp ==
    call.op = "create_balancer" =>
        LET reqs == call.reqs
            srv == call.args.srv
            answered == {k \in DOMAIN reqs : ~AnswerTo(k).fault}
            held == ServerHolds(reqs, srv, Len(reqs))
        IN  /\ \A k \in DOMAIN reqs :
                /\ reqs[k].method = "POST"
                /\ reqs[k].action \notin DOMAIN RemovedKind
                /\ reqs[k].action \in DOMAIN CreatedKind
            /\ Returned => call.ret.value.cls = "LoadBalancer"
            /\ ~Returned =>
                /\ call.ret.value \in StepExceptions
                /\ \A k \in answered : CreatedResource(reqs[k], AnswerTo(k)) \in held
                /\ Cardinality(held) = Cardinality(answered)
                /\ \A k \in answered : reqs[k].action # "createVirtualListener"
            /\ (/\ ListenerType(call.args.listener_port) = "STANDARD"
                /\ call.args.optimization_profile = None
                /\ srv.failAt = 0) =>
                    /\ call.ret = Raise("ValueError")
                    /\ Cardinality(held) = Len(reqs)

\* create_balancer raised the ValueError of ex_create_virtual_listener after
\* the server had made a pool, a node and a pool member for the call
C21_Witness ==
    /\ call.op = "create_balancer"
    /\ call.ret = Raise("ValueError")
    /\ call.args.listener_port = PyInt(8080)
    /\ call.args.optimization_profile = None
    /\ Len(call.reqs) = 3
    /\ ServerHolds(call.reqs, call.args.srv, 3) =
            {[kind |-> "poolId", id |-> "pool1"],
             [kind |-> "nodeId", id |-> "node2"],
             [kind |-> "poolMemberId", id |-> "pm3"]}

====
